---- MODULE Spec2Model ----
(***************************************************************************)
(* web-ai backend: the agent contract, the capability agents, the fan-out  *)
(* operations and the chain executor (backend/app/core/agents).            *)
(*                                                                         *)
(* Spec: one request is in flight at a time.  A fan-out operation is       *)
(* modelled one target per step (each target is one awaited call); a chain *)
(* or an agent operation is one step, its calls recorded in order in the   *)
(* call log.  SpecChat: the chat calls of concurrent callers, interleaved  *)
(* at the await of the LLM call, on the session store of the class.        *)
(* SpecFunctions: structured extraction, template rendering and the        *)
(* registry lookup, one call at a time over the inputs of a caller.        *)
(*                                                                         *)
(* Strings of the source that are not ASCII are written as ASCII glosses.  *)
(* A message (an f-string) is a sequence of its pieces.                    *)
(***************************************************************************)
EXTENDS Integers, Sequences, FiniteSets, TLC

(***************************************************************************)
(* Bounds of the model.                                                    *)
(***************************************************************************)
\* longest target list a caller passes to a fan-out operation
MaxTargets == 2
\* most human and AI messages the session store holds, all sessions together
MaxMessages == 4

(***************************************************************************)
(* Python values.                                                          *)
(***************************************************************************)
None == "None"

\* no envelope: what a function that returns Optional[Dict] gives for None, and
\* what the caller holds before the operation returned
NoResp == [status |-> "none"]

\* dict.get(key, default)
Get(d, k, default) == IF k \in DOMAIN d THEN d[k] ELSE default

\* dict.update(kwargs): the keys of kwargs win
Update(d, kwargs) == kwargs @@ d

\* d[k] = v on a dict
SetItem(d, k, v) == [x \in DOMAIN d \cup {k} |-> IF x = k THEN v ELSE d[x]]

EmptyDict == [x \in {} |-> None]

Range(s) == {s[i] : i \in DOMAIN s}

\* sep.join(items), as the sequence of the pieces
RECURSIVE Join(_, _)
Join(items, sep) ==
    IF items = <<>> THEN <<>>
    ELSE IF Len(items) = 1 THEN <<items[1]>>
    ELSE <<items[1], sep>> \o Join(Tail(items), sep)

\* the outcome of a call: a returned value or a raised exception, with the
\* calls it made, in order
Ret(v, calls) == [raised |-> FALSE, exc |-> "", val |-> v, calls |-> calls]
Raise(e, calls) == [raised |-> TRUE, exc |-> e, val |-> None, calls |-> calls]

(***************************************************************************)
(* TemplateManager: the platform registry.                                 *)
(***************************************************************************)
SOCIAL == "SOCIAL"
ECOMMERCE == "ECOMMERCE"

\* The keys of the registry are Chinese words; "zh_search" stands for the
\* Chinese word for search, which is not the string "search".
\* _social_platform_templates: platform -> the task types it defines
SocialTemplates ==
    [Xiaohongshu |-> <<"zh_search", "zh_blogger_analysis", "zh_content_monitor", "zh_hot_analysis">>,
     Douyin      |-> <<"zh_search", "zh_talent_analysis", "zh_content_monitor", "zh_hot_analysis">>,
     Instagram   |-> <<"zh_search", "zh_blogger_analysis", "zh_content_monitor", "zh_hot_analysis">>,
     Facebook    |-> <<"zh_search", "zh_page_analysis", "zh_content_monitor", "zh_group_analysis">>,
     Twitter     |-> <<"zh_search", "zh_account_analysis", "zh_topic_monitor", "zh_trend_analysis">>,
     YouTube     |-> <<"zh_search", "zh_channel_analysis", "zh_video_analysis", "zh_trend_monitor">>]

\* _ecommerce_platform_templates: platform -> the task types it defines
EcommerceTemplates ==
    [Taobao |-> <<"zh_search", "zh_product_analysis", "zh_shop_analysis">>,
     JD     |-> <<"zh_search", "zh_product_analysis", "zh_shop_analysis">>,
     Amazon |-> <<"zh_search", "zh_product_analysis", "zh_seller_analysis", "zh_review_analysis">>,
     Tmall  |-> <<"zh_search", "zh_product_analysis", "zh_shop_analysis", "zh_live_analysis">>]

get_supported_social_platforms ==
    <<"Xiaohongshu", "Douyin", "Instagram", "Facebook", "Twitter", "YouTube">>

get_supported_ecommerce_platforms == <<"Taobao", "JD", "Amazon", "Tmall">>

get_platform_task_types(category, platform) ==
    IF category = SOCIAL
    THEN Get(SocialTemplates, platform, <<>>)
    ELSE IF category = ECOMMERCE
    THEN Get(EcommerceTemplates, platform, <<>>)
    ELSE <<>>

\* get_social_platform_template(platform, task_type): the template, as the
\* pair that names it; <<>> is None
get_social_platform_template(platform, task_type) ==
    IF platform \in DOMAIN SocialTemplates /\ SocialTemplates[platform] # <<>>
       /\ task_type \in Range(SocialTemplates[platform])
    THEN <<platform, task_type>>
    ELSE <<>>

\* get_ecommerce_platform_template(platform, task_type)
get_ecommerce_platform_template(platform, task_type) ==
    IF platform \in DOMAIN EcommerceTemplates /\ EcommerceTemplates[platform] # <<>>
       /\ task_type \in Range(EcommerceTemplates[platform])
    THEN <<platform, task_type>>
    ELSE <<>>

(***************************************************************************)
(* BrowserTaskAgent: the agent contract.                                   *)
(***************************************************************************)
\* format_success_response(message, **kwargs)
format_success_response(message, kwargs) ==
    Update([status |-> "success", message |-> message], kwargs)

\* format_error_response(message, **kwargs)
format_error_response(message, kwargs) ==
    Update([status |-> "error", message |-> message], kwargs)

\* a validation whose error leaves the supported platforms out
validate_platform_nolist(platform, supported_platforms) ==
    IF platform \notin Range(supported_platforms)
    THEN format_error_response(<<"Unsupported platform: ", platform>>, EmptyDict)
    ELSE NoResp

\* validate_platform(platform, supported_platforms): an error envelope, or
\* nothing (None)
validate_platform(platform, supported_platforms) ==
    IF platform \notin Range(supported_platforms)
    THEN format_error_response(<<"Unsupported platform: ", platform>>,
                               [supported_platforms |-> supported_platforms])
    ELSE NoResp

\* what Python raises when a name is looked up on a class that does not define it
AttributeError(cls, name) == "AttributeError: " \o cls \o " has no attribute " \o name

\* the names class BrowserTaskAgent defines
BrowserTaskAgentAttrs ==
    {"controller", "DEFAULT_SYSTEM_PROMPT_EXTENSION", "ask_user", "get_llm",
     "format_success_response", "format_error_response", "validate_platform",
     "execute_task", "execute_template_task"}

(***************************************************************************)
(* TemplateManager: the general templates and rendering.  A template body  *)
(* is the sequence of its pieces: literal text and {placeholders}.         *)
(***************************************************************************)
Text(t) == [kind |-> "text", v |-> t]
Field(name) == [kind |-> "field", v |-> name]

\* _general_templates: name -> body ("zh_web_search" stands for the Chinese name)
GeneralTemplates ==
    [zh_web_search |->
         <<Text("Search the web for "), Field("query"), Text(", visit at least "),
           Field("min_sources"), Text(" pages about "), Field("query"),
           Text(", cover: "), Field("aspects")>>,
     zh_data_collection |->
         <<Text("Collect from "), Field("website"), Text(" data about "), Field("topic"),
           Text(": "), Field("point1"), Text(", "), Field("point2"), Text(", "),
           Field("point3")>>,
     zh_web_summary |->
         <<Text("Visit and summarize "), Field("url"), Text(".")>>,
     zh_comparison |->
         <<Text("Compare "), Field("item1"), Text(" at "), Field("url1"), Text(" with "),
           Field("item2"), Text(" at "), Field("url2"), Text(" on "), Field("dimensions")>>,
     zh_trend_monitor |->
         <<Text("Monitor the trend of "), Field("topic"), Text(" over "),
           Field("time_period"), Text(".")>>]

\* list(d.keys()); the order of insertion is not modelled, the list is in one
\* fixed order
RECURSIVE KeyList(_)
KeyList(keys) ==
    IF keys = {} THEN <<>>
    ELSE LET k == CHOOSE x \in keys : TRUE IN <<k>> \o KeyList(keys \ {k})

get_general_template_names ==
    <<"zh_web_search", "zh_data_collection", "zh_web_summary", "zh_comparison",
      "zh_trend_monitor">>

\* get_general_template(template_name): _general_templates.get(name); <<>> is None
get_general_template(template_name) == Get(GeneralTemplates, template_name, <<>>)

\* repr() of a key, as str(KeyError(key)) gives it
Repr(key) == "'" \o key \o "'"

\* template.format(**parameters): the pieces of the result, or the first
\* placeholder, in the order of the body, that the mapping has no entry for
RECURSIVE Format(_, _)
Format(template, parameters) ==
    IF template = <<>> THEN Ret(<<>>, <<>>)
    ELSE LET piece == Head(template) IN
         IF piece.kind = "field" /\ piece.v \notin DOMAIN parameters
         THEN Raise(piece.v, <<>>)
         ELSE LET rest == Format(Tail(template), parameters)
              IN IF rest.raised THEN rest
                 ELSE Ret(<<IF piece.kind = "field" THEN parameters[piece.v] ELSE piece.v>>
                          \o rest.val, <<>>)

\* a rendering that puts nothing where the mapping has no entry
render_template_blank(template, parameters) ==
    Ret([i \in 1..Len(template) |->
            IF template[i].kind = "text" THEN template[i].v
            ELSE IF template[i].v \in DOMAIN parameters THEN parameters[template[i].v]
            ELSE ""], <<>>)

\* render_template(template, parameters): a KeyError of format() is raised
\* again as KeyError(message); the keys of the mappings here are strings and
\* the bodies are well formed, so format() raises nothing else
render_template(template, parameters) ==
    LET r == Format(template, parameters)
    IN IF r.raised
       THEN Raise(<<"Template parameter error: missing parameter ", Repr(r.exc)>>, <<>>)
       ELSE r

(***************************************************************************)
(* BrowserTaskAgent: dispatch.                                             *)
(***************************************************************************)
\* BrowserTaskAgent.get_llm(temperature, model_name, system_prompt):
\* ChatOpenAI(...) is the one call to the outside
BrowserTaskAgent_get_llm(temperature, model_name, system_prompt, llm) ==
    IF llm.kind = "create_fail"
    THEN Raise(<<"Creating the LLM instance failed: ", llm.exc>>, <<"ChatOpenAI">>)
    ELSE Ret(llm, <<"ChatOpenAI">>)

\* a dispatch whose `except Exception` is missing: the exception escapes
execute_task_propagates(task, use_vision, temperature, model_name, system_prompt, llm) ==
    LET l == BrowserTaskAgent_get_llm(temperature, model_name, system_prompt, llm)
    IN IF l.raised THEN l
       ELSE Ret(format_success_response(<<"Task executed (simulated result)">>,
                    [result |-> [task_description |-> task, use_vision |-> use_vision]]),
                l.calls)

\* a dispatch that reports a failure with what it had built so far
execute_task_partial(task, use_vision, temperature, model_name, system_prompt, llm) ==
    LET l == BrowserTaskAgent_get_llm(temperature, model_name, system_prompt, llm)
    IN IF l.raised
       THEN Ret(format_error_response(<<"Task execution failed: ">> \o l.exc,
                                      [result |-> [task_description |-> task]]), l.calls)
       ELSE Ret(format_success_response(<<"Task executed (simulated result)">>,
                    [result |-> [task_description |-> task, use_vision |-> use_vision]]),
                l.calls)

\* BrowserTaskAgent.execute_task(task, use_vision, temperature, model_name,
\* system_prompt): the task itself is not run, the result is a placeholder
execute_task(task, use_vision, temperature, model_name, system_prompt, llm) ==
    LET l == BrowserTaskAgent_get_llm(temperature, model_name, system_prompt, llm)
    IN IF l.raised
       THEN Ret(format_error_response(<<"Task execution failed: ">> \o l.exc, EmptyDict),
                l.calls)
       ELSE Ret(format_success_response(<<"Task executed (simulated result)">>,
                    [result |-> [task_description |-> task,
                                 use_vision |-> use_vision,
                                 model |-> IF model_name = None THEN "default model"
                                           ELSE model_name,
                                 content |-> "placeholder of the result"]]),
                l.calls)

\* a template task that renders after it dispatched
execute_template_task_late(template_name, parameters, use_vision, temperature, model_name, system_prompt, llm) ==
    LET template == get_general_template(template_name)
        task == render_template(template, parameters)
        r == execute_task(<<template_name>>, use_vision, temperature, model_name,
                          system_prompt, llm)
    IN IF template = <<>>
       THEN Ret(format_error_response(<<"Template not found: ", template_name>>,
                    [supported_templates |-> get_general_template_names]), r.calls)
       ELSE IF task.raised
       THEN Ret(format_error_response(
                    <<"Template parameter error: missing parameter ", "\"">> \o task.exc
                        \o <<"\"">>,
                    [required_parameters |-> KeyList(DOMAIN parameters)]), r.calls)
       ELSE r

\* BrowserTaskAgent.execute_template_task(template_name, parameters, use_vision,
\* temperature, model_name, system_prompt)
execute_template_task(template_name, parameters, use_vision, temperature, model_name, system_prompt, llm) ==
    LET template == get_general_template(template_name)
        task == render_template(template, parameters)
    IN IF template = <<>>
       THEN Ret(format_error_response(<<"Template not found: ", template_name>>,
                    [supported_templates |-> get_general_template_names]), <<>>)
       ELSE IF task.raised
       THEN \* except KeyError as e: str(e) is the repr of the message
            Ret(format_error_response(
                    <<"Template parameter error: missing parameter ", "\"">> \o task.exc
                        \o <<"\"">>,
                    [required_parameters |-> KeyList(DOMAIN parameters)]), <<>>)
       ELSE execute_task(task.val, use_vision, temperature, model_name, system_prompt, llm)

(***************************************************************************)
(* SocialAgent(BrowserTaskAgent).                                          *)
(***************************************************************************)
\* the names class SocialAgent defines or inherits
SocialAgentAttrs ==
    BrowserTaskAgentAttrs \cup
    {"execute_social_task", "collect_from_platform", "monitor_sentiment",
     "analyze_data", "find_trending_content", "find_similar_creators",
     "generate_content_ideas", "analyze_creator", "collect_inspiration"}

\* execute_social_task(platform, task_type, parameters, use_vision): its body
\* is the one call cls.execute_category_task(...).  No class of the hierarchy
\* defines execute_category_task, so evaluating cls.execute_category_task
\* raises AttributeError before anything is called.
execute_social_task(platform, task_type, parameters, use_vision) ==
    Raise(AttributeError("SocialAgent", "execute_category_task"), <<>>)

(***************************************************************************)
(* EcommerceAgent(BrowserTaskAgent).                                       *)
(***************************************************************************)
\* the names class EcommerceAgent defines or inherits
EcommerceAgentAttrs ==
    BrowserTaskAgentAttrs \cup
    {"search_products", "monitor_price", "analyze_reviews", "compare_products",
     "analyze_sales", "find_top_sellers", "extract_product_info",
     "track_listing", "generate_tracking_id"}

\* cls.execute_ecommerce_task(...), as monitor_price and the other operations
\* call it: EcommerceAgent has no such attribute, the lookup raises.
execute_ecommerce_task(platform, task_type, parameters, use_vision) ==
    Raise(AttributeError("EcommerceAgent", "execute_ecommerce_task"), <<>>)

\* what Python raises when a call passes a keyword the callee does not take
TypeError(callee, keyword) ==
    "TypeError: " \o callee \o "() got an unexpected keyword argument " \o keyword

\* a collection that words the rejection of a task type as it words a failure
collect_from_platform_sameprefix(platform, task_type, use_vision, params) ==
    LET supported_platforms == get_supported_social_platforms
        error == validate_platform(platform, supported_platforms)
        supported_task_types == get_platform_task_types(SOCIAL, platform)
    IN IF error # NoResp
       THEN Ret(error, <<>>)
       ELSE IF task_type \notin Range(supported_task_types)
       THEN Ret(format_error_response(
                    <<"Collecting from ", platform, " failed: unsupported task type ",
                      task_type>>, EmptyDict), <<>>)
       ELSE LET r == execute_social_task(platform, task_type, params, use_vision)
                c == <<"execute_social_task">> \o r.calls
            IN Ret(format_error_response(
                       <<"Collecting from ", platform, " failed: ", r.exc>>,
                       [platform |-> platform, task_type |-> task_type]), c)

\* SocialAgent.collect_from_platform(platform, task_type, use_vision, **params)
collect_from_platform(platform, task_type, use_vision, params) ==
    LET supported_platforms == get_supported_social_platforms
        error == validate_platform(platform, supported_platforms)
        supported_task_types == get_platform_task_types(SOCIAL, platform)
    IN IF error # NoResp
       THEN Ret(error, <<>>)
       ELSE IF task_type \notin Range(supported_task_types)
       THEN Ret(format_error_response(
                    <<"Platform ", platform, " does not support task type: ", task_type>>,
                    EmptyDict), <<>>)
       ELSE LET r == execute_social_task(platform, task_type, params, use_vision)
                c == <<"execute_social_task">> \o r.calls
            IN IF r.raised
               THEN Ret(format_error_response(
                            <<"Collecting from ", platform, " failed: ", r.exc>>,
                            [platform |-> platform, task_type |-> task_type]), c)
               ELSE Ret(Update(r.val, [platform |-> platform, task_type |-> task_type]), c)

\* the analysis types of SocialAgent.analyze_data
analysis_types == {"sentiment", "trend", "demographic", "topic"}

\* SocialAgent.analyze_data(data, analysis_type)
analyze_data(data, analysis_type) ==
    IF analysis_type \notin analysis_types
    THEN Ret(format_error_response(
                 <<"Unsupported analysis type: ", analysis_type, ", supported types: ",
                   "sentiment, trend, demographic, topic">>, EmptyDict), <<>>)
    ELSE LET r == execute_social_task("", analysis_type, [data |-> data], FALSE)
             c == <<"execute_social_task">> \o r.calls
         IN IF r.raised
            THEN Ret(format_error_response(<<"Data analysis error: ", r.exc>>,
                                           [analysis_type |-> analysis_type]), c)
            ELSE IF r.val.status = "success"
            THEN Ret(format_success_response(<<analysis_type, " analysis done">>,
                         [analysis_type |-> analysis_type,
                          analysis_result |-> r.val.result]), c)
            ELSE Ret(r.val, c)

\* SocialAgent.find_trending_content(platform, niche, count, time_period, use_vision)
find_trending_content(platform, niche, count, time_period, use_vision) ==
    LET supported_platforms == get_supported_social_platforms
        error == validate_platform(platform, supported_platforms)
    IN IF error # NoResp
       THEN Ret(error, <<>>)
       ELSE LET r == execute_social_task(platform, "trending_content",
                         [niche |-> niche, count |-> count, time_period |-> time_period],
                         use_vision)
                c == <<"execute_social_task">> \o r.calls
            IN IF r.raised
               THEN Ret(format_error_response(<<"Finding trending content error: ", r.exc>>,
                            [platform |-> platform, niche |-> niche]), c)
               ELSE IF r.val.status = "success"
               THEN Ret(format_success_response(
                            <<"Found trending ", niche, " content of ", platform>>,
                            [platform |-> platform, niche |-> niche,
                             time_period |-> time_period, count |-> count,
                             trending_content |-> r.val.result]), c)
               ELSE Ret(r.val, c)

\* EcommerceAgent.search_products(platform, query, max_results, sort_by,
\* use_vision, **filters).  Past validation it calls
\* cls.execute_task(platform=..., task_type="search", parameters=..., use_vision=...);
\* execute_task(task, use_vision, temperature, model_name, system_prompt) takes
\* no `platform`, so the call raises TypeError before execute_task runs, and
\* the operation's own `except Exception` turns it into an error envelope.
search_products(platform, query, max_results, sort_by, use_vision, filters) ==
    LET supported_platforms == get_supported_ecommerce_platforms
        error == validate_platform(platform, supported_platforms)
    IN IF error # NoResp
       THEN Ret(error, <<>>)
       ELSE LET r == Raise(TypeError("execute_task", "platform"), <<>>)
            IN Ret(format_error_response(<<"Product search failed: ", r.exc>>,
                                         [platform |-> platform, query |-> query]),
                   <<"execute_task">>)

(***************************************************************************)
(* BaseChatAgent and TextAgent(BaseChatAgent).                             *)
(*                                                                         *)
(* A text is a sequence of tokens.  What the LLM capability does for a     *)
(* call is a record: kind "ok" with the reply's content, "create_fail"     *)
(* (ChatOpenAI(...) raised in get_llm) or "invoke_fail" (ainvoke raised).  *)
(***************************************************************************)
\* BaseChatAgent.format_success_response(message, **kwargs)
BaseChatAgent_format_success_response(message, kwargs) ==
    Update([status |-> "success", message |-> message], kwargs)

\* BaseChatAgent.format_error_response(message, **kwargs)
BaseChatAgent_format_error_response(message, kwargs) ==
    Update([status |-> "error", message |-> message], kwargs)

\* BaseChatAgent.get_llm(temperature, model_name, system_prompt)
get_llm(llm) ==
    IF llm.kind = "create_fail"
    THEN Raise("ValueError: creating the LLM instance failed: " \o llm.exc, <<"get_llm">>)
    ELSE Ret(llm, <<"get_llm">>)

\* BaseChatAgent.ask(prompt, temperature, model_name, system_prompt)
ask(prompt, llm) ==
    LET l == get_llm(llm)
    IN IF l.raised
       THEN Ret(BaseChatAgent_format_error_response(<<"Ask failed: ", l.exc>>, EmptyDict),
                l.calls)
       ELSE IF llm.kind = "invoke_fail"
       THEN Ret(BaseChatAgent_format_error_response(<<"Ask failed: ", llm.exc>>, EmptyDict),
                l.calls \o <<"llm.ainvoke">>)
       ELSE Ret(BaseChatAgent_format_success_response(<<"Answered">>,
                                                      [result |-> llm.content]),
                l.calls \o <<"llm.ainvoke">>)

\* BaseChatAgent.summarize(text, max_length, focus, temperature, model_name)
summarize(text, max_length, focus, llm) ==
    LET r == ask(<<"Summarize: ">> \o text, llm)
    IN Ret(r.val, <<"ask">> \o r.calls)

\* TextAgent.create_content(topic, content_type, tone, length, keywords, audience)
create_content(topic, content_type, tone, length, keywords, audience, llm) ==
    LET r == ask(<<"Create ", tone, content_type, topic>>, llm)
        c == <<"ask">> \o r.calls
    IN IF r.val.status = "success"
       THEN Ret(Update(r.val, [content_type |-> content_type, topic |-> topic,
                               tone |-> tone, keywords |-> keywords,
                               audience |-> audience]), c)
       ELSE Ret(r.val, c)

(***************************************************************************)
(* Structured extraction.  The tokens of a reply: "F" is a fence (three   *)
(* backquotes), "json" the label json right after a fence, "WS" white      *)
(* space, a "J_..." token a JSON document, "X" text that is not JSON.  The  *)
(* document J_code has a string value that holds a fence: its text is the  *)
(* three tokens "J_code<", "F", ">J_code".                                 *)
(***************************************************************************)
\* str.strip()
RECURSIVE LStrip(_)
LStrip(t) == IF t # <<>> /\ Head(t) = "WS" THEN LStrip(Tail(t)) ELSE t
RECURSIVE RStrip(_)
RStrip(t) == IF t # <<>> /\ t[Len(t)] = "WS" THEN RStrip(SubSeq(t, 1, Len(t) - 1)) ELSE t
Strip(t) == RStrip(LStrip(t))

\* str.startswith(prefix)
StartsWith(t, prefix) == Len(t) >= Len(prefix) /\ SubSeq(t, 1, Len(prefix)) = prefix

\* the index at which sep first occurs in t, 0 if it does not
Find(t, sep) ==
    LET hits == {i \in 1..(Len(t) - Len(sep) + 1) : SubSeq(t, i, i + Len(sep) - 1) = sep}
    IN IF hits = {} THEN 0 ELSE CHOOSE i \in hits : \A j \in hits : i <= j

\* t.split(sep)[0]
SplitFirst(t, sep) ==
    IF Find(t, sep) = 0 THEN t ELSE SubSeq(t, 1, Find(t, sep) - 1)

\* the rest of t after the first sep
AfterFirst(t, sep) == SubSeq(t, Find(t, sep) + Len(sep), Len(t))

\* t.split(sep)[1], for a t that holds sep
SplitSecond(t, sep) == SplitFirst(AfterFirst(t, sep), sep)

\* the JSON documents of the model and what json.loads makes of them
JsonTokens == {"J_prod", "J_empty", "J_nokey", "J_list", "J_code"}

json_loads(tok) ==
    IF tok = "J_prod"
    THEN [kind |-> "object", keys |-> {"popular_products", "product_features"},
          popular_products |-> <<"p1", "p2">>, product_features |-> <<"f1">>]
    ELSE IF tok = "J_empty"
    THEN [kind |-> "object", keys |-> {"popular_products", "product_features"},
          popular_products |-> <<>>, product_features |-> <<>>]
    ELSE IF tok = "J_nokey"
    THEN [kind |-> "object", keys |-> {},
          popular_products |-> <<>>, product_features |-> <<>>]
    ELSE IF tok = "J_code"
    THEN [kind |-> "object", keys |-> {"popular_products", "product_features"},
          popular_products |-> <<"p_fence">>, product_features |-> <<>>]
    ELSE [kind |-> "array", keys |-> {},
          popular_products |-> <<>>, product_features |-> <<>>]

\* json.dumps(value, ensure_ascii=False)
json_dumps(value) == CHOOSE tok \in JsonTokens : json_loads(tok) = value

\* the text of a JSON document
JsonText(tok) == IF tok = "J_code" THEN <<"J_code<", "F", ">J_code">> ELSE <<tok>>

\* does json.loads(text) succeed
IsJson(t) == \E tok \in JsonTokens : JsonText(tok) = t

\* the document a text is, for a text json.loads accepts
JsonDoc(t) == CHOOSE tok \in JsonTokens : JsonText(tok) = t

\* BaseChatAgent.structured_extraction(data, extraction_prompt, schema,
\* temperature, model_name)
structured_extraction(data, extraction_prompt, schema, llm) ==
    LET l == get_llm(llm)
    IN IF l.raised
       THEN Ret(BaseChatAgent_format_error_response(
                    <<"Structured extraction failed: ", l.exc>>, EmptyDict), l.calls)
       ELSE IF llm.kind = "invoke_fail"
       THEN Ret(BaseChatAgent_format_error_response(
                    <<"Structured extraction failed: ", llm.exc>>, EmptyDict),
                l.calls \o <<"llm.ainvoke">>)
       ELSE LET stripped == Strip(llm.content)
                answer == IF StartsWith(stripped, <<"F", "json">>)
                          THEN Strip(SplitFirst(SplitSecond(stripped, <<"F", "json">>), <<"F">>))
                          ELSE IF StartsWith(stripped, <<"F">>)
                          THEN Strip(SplitFirst(SplitSecond(stripped, <<"F">>), <<"F">>))
                          ELSE stripped
            IN IF IsJson(answer)
               THEN Ret(BaseChatAgent_format_success_response(<<"Extraction succeeded">>,
                            [result |-> json_dumps(json_loads(JsonDoc(answer)))]),
                        l.calls \o <<"llm.ainvoke">>)
               ELSE Ret(BaseChatAgent_format_error_response(
                            <<"JSON parse failed: ", "JSONDecodeError">>,
                            [original_response |-> answer]),
                        l.calls \o <<"llm.ainvoke">>)

(***************************************************************************)
(* ChainAgent.  A chain function gives the envelope it returns (val), the  *)
(* calls it made and the result of each stage that ran (stages).           *)
(***************************************************************************)
Chain(v, calls, stages) == [val |-> v, calls |-> calls, stages |-> stages]

Stage(name, result) == [name |-> name, result |-> result]

\* social_result_summary keeps this many characters of the social data
SummaryLimit == 500

\* a chain that goes on to stage 2 whatever stage 1 returned
text_to_social_analysis_noabort(text, content_type, platform, analysis_type, llm) ==
    LET content_result == create_content(text, content_type, "informative", "medium",
                                         <<text>>, "general netizens", llm)
        c1 == <<"TextAgent.create_content">> \o content_result.calls
        generated_content == Get(content_result.val, "result", <<>>)
        analysis_result == analyze_data(generated_content, analysis_type)
    IN Chain([status |-> content_result.val.status,
              message |-> <<"Text-to-social chain done">>,
              generated_content |-> generated_content,
              analysis_result |-> analysis_result.val,
              platform |-> platform, analysis_type |-> analysis_type],
             c1 \o <<"SocialAgent.analyze_data">> \o analysis_result.calls,
             <<Stage("create_content", content_result.val),
               Stage("analyze_data", analysis_result.val)>>)

\* a chain that answers a failing stage 2 with a bare error envelope
text_to_social_analysis_drop(text, content_type, platform, analysis_type, llm) ==
    LET content_result == create_content(text, content_type, "informative", "medium",
                                         <<text>>, "general netizens", llm)
        c1 == <<"TextAgent.create_content">> \o content_result.calls
    IN IF content_result.val.status # "success"
       THEN Chain(BaseChatAgent_format_error_response(
                      <<"Content creation failed: ">> \o content_result.val.message,
                      EmptyDict),
                  c1, <<Stage("create_content", content_result.val)>>)
       ELSE LET generated_content == Get(content_result.val, "result", <<>>)
                analysis_result == analyze_data(generated_content, analysis_type)
            IN Chain(IF analysis_result.val.status # "success"
                     THEN BaseChatAgent_format_error_response(
                              <<"Analysis failed: ">> \o analysis_result.val.message,
                              EmptyDict)
                     ELSE [status |-> "success",
                           message |-> <<"Text-to-social chain succeeded">>,
                           generated_content |-> generated_content,
                           analysis_result |-> analysis_result.val,
                           platform |-> platform, analysis_type |-> analysis_type],
                     c1 \o <<"SocialAgent.analyze_data">> \o analysis_result.calls,
                     <<Stage("create_content", content_result.val),
                       Stage("analyze_data", analysis_result.val)>>)

\* ChainAgent.text_to_social_analysis(text, content_type, platform, analysis_type)
text_to_social_analysis(text, content_type, platform, analysis_type, llm) ==
    LET content_result == create_content(text, content_type, "informative", "medium",
                                         <<text>>, "general netizens", llm)
        c1 == <<"TextAgent.create_content">> \o content_result.calls
    IN IF content_result.val.status # "success"
       THEN Chain(BaseChatAgent_format_error_response(
                      <<"Content creation failed: ">> \o content_result.val.message,
                      EmptyDict),
                  c1, <<Stage("create_content", content_result.val)>>)
       ELSE LET generated_content == Get(content_result.val, "result", <<>>)
                analysis_result == analyze_data(generated_content, analysis_type)
            IN Chain([status |-> "success",
                      message |-> <<"Text-to-social chain succeeded">>,
                      generated_content |-> generated_content,
                      analysis_result |-> analysis_result.val,
                      platform |-> platform, analysis_type |-> analysis_type],
                     c1 \o <<"SocialAgent.analyze_data">> \o analysis_result.calls,
                     <<Stage("create_content", content_result.val),
                       Stage("analyze_data", analysis_result.val)>>)

\* the query of stage 2, from the result of the structured extraction
product_query(extraction_result, keyword) ==
    IF extraction_result.status # "success"
    THEN keyword
    ELSE LET extraction_data == json_loads(extraction_result.result)
         IN IF extraction_data.kind # "object"
            THEN keyword    \* .get on a list raises, `except Exception` takes the keyword
            ELSE LET products == IF "popular_products" \in extraction_data.keys
                                 THEN extraction_data.popular_products
                                 ELSE <<>>
                 IN IF products # <<>> THEN products[1] ELSE keyword

\* ChainAgent.social_to_ecommerce(keyword, platform, search_count, ecommerce_platform)
social_to_ecommerce(keyword, platform, search_count, ecommerce_platform, llm) ==
    LET social_result == collect_from_platform(platform, "zh_search", TRUE,
                             [keyword |-> keyword, top_n |-> search_count])
        c1 == <<"SocialAgent.collect_from_platform">> \o social_result.calls
    IN IF social_result.val.status # "success"
       THEN Chain(BaseChatAgent_format_error_response(
                      <<"Social media search failed: ">> \o social_result.val.message,
                      EmptyDict),
                  c1, <<Stage("collect_from_platform", social_result.val)>>)
       ELSE LET social_data == Get(social_result.val, "result", <<>>)
                extraction_result ==
                    structured_extraction(social_data,
                                          <<"Extract products from ", platform>> \o social_data,
                                          "ProductExtraction", llm)
                query == product_query(extraction_result.val, keyword)
                search_result == search_products(ecommerce_platform, query, 5, "default",
                                                 TRUE, [filters |-> None])
            IN Chain([status |-> "success",
                      message |-> <<"Social-to-ecommerce chain succeeded">>,
                      social_platform |-> platform,
                      social_keyword |-> keyword,
                      ecommerce_platform |-> ecommerce_platform,
                      product_query |-> query,
                      social_result_summary |->
                          IF Len(social_data) > SummaryLimit
                          THEN SubSeq(social_data, 1, SummaryLimit) \o <<"...">>
                          ELSE social_data,
                      ecommerce_result |-> search_result.val],
                     c1 \o <<"TextAgent.structured_extraction">> \o extraction_result.calls
                        \o <<"EcommerceAgent.search_products">> \o search_result.calls,
                     <<Stage("collect_from_platform", social_result.val),
                       Stage("structured_extraction", extraction_result.val),
                       Stage("search_products", search_result.val)>>)

\* summary_content of advanced_market_research: the three values the text
\* given to the summarizer is made of, one per stage
summary_content(trend_result, product_result, competition_result) ==
    [social_trends |-> Get(trend_result, "result", <<"no data">>),
     product_info |-> Get(product_result, "result", <<"no data">>),
     competition_analysis |-> Get(competition_result, "result", <<"no data">>)]

\* ChainAgent.advanced_market_research(product, target_audience, social_platform,
\* ecommerce_platform).  Its third stage is ecommerce_agent.analyze_competition(...):
\* EcommerceAgent has no such attribute, the lookup raises AttributeError, and
\* the chain's `except Exception` returns the error envelope; the summary of
\* stage 4 and the final envelope are never reached.
advanced_market_research(product, target_audience, social_platform, ecommerce_platform, llm) ==
    LET trend_result == find_trending_content(social_platform, product, 5,
                                              "last month", TRUE)
        product_result == search_products(ecommerce_platform, product, 5, "default",
                                          TRUE, EmptyDict)
        e == Raise(AttributeError("EcommerceAgent", "analyze_competition"), <<>>)
    IN Chain(BaseChatAgent_format_error_response(
                 <<"Advanced market research failed: ", e.exc>>, EmptyDict),
             <<"SocialAgent.find_trending_content">> \o trend_result.calls
                \o <<"EcommerceAgent.search_products">> \o product_result.calls,
             <<Stage("find_trending_content", trend_result.val),
               Stage("search_products", product_result.val)>>)

\* a factory whose last branch hands out a known chain
create_agent_chain_fallthrough(chain_config) ==
    LET chain_type == Get(chain_config, "type", "")
    IN IF chain_type = "text_to_social"
       THEN [func |-> "text_to_social_analysis", chain_type |-> chain_type]
       ELSE IF chain_type = "social_to_ecommerce"
       THEN [func |-> "social_to_ecommerce", chain_type |-> chain_type]
       ELSE [func |-> "advanced_market_research", chain_type |-> chain_type]

\* ChainAgent.create_agent_chain(chain_config): the chain function, and for an
\* unknown type the closure custom_chain over chain_type
create_agent_chain(chain_config) ==
    LET chain_type == Get(chain_config, "type", "")
    IN IF chain_type = "text_to_social"
       THEN [func |-> "text_to_social_analysis", chain_type |-> chain_type]
       ELSE IF chain_type = "social_to_ecommerce"
       THEN [func |-> "social_to_ecommerce", chain_type |-> chain_type]
       ELSE IF chain_type = "market_research"
       THEN [func |-> "advanced_market_research", chain_type |-> chain_type]
       ELSE [func |-> "custom_chain", chain_type |-> chain_type]

\* custom_chain(**kwargs), the closure create_agent_chain returns
custom_chain(chain_type, kwargs) ==
    Chain(BaseChatAgent_format_error_response(<<"Unknown chain type: ", chain_type>>,
                                              EmptyDict),
          <<>>, <<>>)

\* the parameters of the chain functions: all of them, and those without a default
ChainParams(func) ==
    IF func = "text_to_social_analysis"
    THEN {"text", "content_type", "platform", "analysis_type"}
    ELSE IF func = "social_to_ecommerce"
    THEN {"keyword", "platform", "search_count", "ecommerce_platform"}
    ELSE {"product", "target_audience", "social_platform", "ecommerce_platform"}

ChainRequired(func) ==
    IF func = "text_to_social_analysis" THEN {"text"}
    ELSE IF func = "social_to_ecommerce" THEN {"keyword"}
    ELSE {"product"}

\* chain_func(**params): the call binds params to the function's parameters
\* (TypeError on a name it does not take or a missing one), defaults fill the rest
call_chain(f, params, llm) ==
    IF f.func = "custom_chain"
    THEN Ret(custom_chain(f.chain_type, params), <<>>)
    ELSE IF ~(DOMAIN params \subseteq ChainParams(f.func))
            \/ ~(ChainRequired(f.func) \subseteq DOMAIN params)
    THEN Raise("TypeError: " \o f.func \o "() arguments", <<>>)
    ELSE IF f.func = "text_to_social_analysis"
    THEN Ret(text_to_social_analysis(params.text,
                 Get(params, "content_type", "social media post"),
                 Get(params, "platform", "Xiaohongshu"),
                 Get(params, "analysis_type", "sentiment"), llm), <<>>)
    ELSE IF f.func = "social_to_ecommerce"
    THEN Ret(social_to_ecommerce(params.keyword,
                 Get(params, "platform", "Xiaohongshu"),
                 Get(params, "search_count", 5),
                 Get(params, "ecommerce_platform", "Taobao"), llm), <<>>)
    ELSE Ret(advanced_market_research(params.product,
                 Get(params, "target_audience", "young women"),
                 Get(params, "social_platform", "Xiaohongshu"),
                 Get(params, "ecommerce_platform", "Taobao"), llm), <<>>)

(***************************************************************************)
(* ChatAgent: the conversation sessions.  A history is the sequence of the *)
(* messages of InMemoryChatMessageHistory.messages.                        *)
(***************************************************************************)
SYSTEM_PROMPT == <<"You are a friendly AI assistant">>

SystemMessage(content) == [type |-> "system", content |-> content]
HumanMessage(content) == [type |-> "human", content |-> content]
AIMessage(content) == [type |-> "ai", content |-> content]

\* ChatAgent.get_llm(): the client is created at the first use and cached
ChatAgent_get_llm(instance, llm) ==
    IF instance THEN [raised |-> FALSE, exc |-> <<>>, instance |-> TRUE]
    ELSE IF llm.kind = "create_fail"
    THEN [raised |-> TRUE, exc |-> <<llm.exc>>, instance |-> FALSE]
    ELSE [raised |-> FALSE, exc |-> <<>>, instance |-> TRUE]

\* a session store that adds the system prompt at every lookup
get_session_history_seed_again(store, session_id) ==
    IF session_id \notin DOMAIN store
    THEN SetItem(store, session_id, <<SystemMessage(SYSTEM_PROMPT)>>)
    ELSE [store EXCEPT ![session_id] = Append(@, SystemMessage(SYSTEM_PROMPT))]

\* a session store that seeds the system prompt at every lookup
get_session_history_reseed(store, session_id) ==
    IF session_id \notin DOMAIN store
    THEN SetItem(store, session_id, <<SystemMessage(SYSTEM_PROMPT)>>)
    ELSE SetItem(store, session_id, <<SystemMessage(SYSTEM_PROMPT)>>)

\* ChatAgent.get_session_history(session_id): the store after the lookup; the
\* history is store[session_id]
get_session_history(store, session_id) ==
    IF session_id \notin DOMAIN store
    THEN SetItem(store, session_id, <<SystemMessage(SYSTEM_PROMPT)>>)
    ELSE store

\* one history shared by the sessions: a message goes to every session
add_message_shared(store, session_id, message) ==
    [x \in DOMAIN store |-> Append(store[x], message)]

\* history.add_message(message) on the history of session_id
add_message(store, session_id, message) ==
    [store EXCEPT ![session_id] = Append(@, message)]

\* chat's `except Exception as e: raise Exception(f"AI chat error: {str(e)}")`
chat_raise(e) == <<"AI chat error: ">> \o e

\* ChatAgent.format_response(ai_response)
format_response(ai_response) ==
    [status |-> "success", message |-> <<"Chat succeeded">>, response |-> ai_response]

\* ChatAgent.format_error(error_message)
format_error(error_message) ==
    [status |-> "error", message |-> error_message, response |-> None]

\* a chat that keeps the human message to itself until the reply is there
chat_send_deferred(store, instance, message, session_id, llm) ==
    LET l == ChatAgent_get_llm(instance, llm)
        created == get_session_history(store, session_id)
    IN IF l.raised
       THEN [raised |-> TRUE, exc |-> chat_raise(l.exc), store |-> store,
             instance |-> l.instance, all_messages |-> <<>>]
       ELSE [raised |-> FALSE, exc |-> <<>>, store |-> created,
             instance |-> l.instance,
             all_messages |-> Append(created[session_id], HumanMessage(message))]

\* a chat that replays a window of the history: the new message only
chat_send_window(store, instance, message, session_id, llm) ==
    LET l == ChatAgent_get_llm(instance, llm)
        created == get_session_history(store, session_id)
        appended == add_message(created, session_id, HumanMessage(message))
    IN IF l.raised
       THEN [raised |-> TRUE, exc |-> chat_raise(l.exc), store |-> store,
             instance |-> l.instance, all_messages |-> <<>>]
       ELSE [raised |-> FALSE, exc |-> <<>>, store |-> appended,
             instance |-> l.instance, all_messages |-> <<HumanMessage(message)>>]

\* chat up to its await: get_llm(), get_session_history(), add the human
\* message, and hand history.messages to llm.ainvoke
chat_send(store, instance, message, session_id, llm) ==
    LET l == ChatAgent_get_llm(instance, llm)
        created == get_session_history(store, session_id)
        appended == add_message(created, session_id, HumanMessage(message))
    IN IF l.raised
       THEN [raised |-> TRUE, exc |-> chat_raise(l.exc), store |-> store,
             instance |-> l.instance, all_messages |-> <<>>]
       ELSE [raised |-> FALSE, exc |-> <<>>, store |-> appended,
             instance |-> l.instance, all_messages |-> appended[session_id]]

\* a chat that takes its human message back when the invocation fails
chat_receive_rollback(store, session_id, llm) ==
    IF llm.kind = "invoke_fail"
    THEN [raised |-> TRUE, exc |-> chat_raise(<<llm.exc>>),
          store |-> [store EXCEPT ![session_id] = SubSeq(@, 1, Len(@) - 1)],
          content |-> <<>>]
    ELSE [raised |-> FALSE, exc |-> <<>>,
          store |-> add_message(store, session_id, AIMessage(llm.content)),
          content |-> llm.content]

\* chat after its await: ainvoke raised, or the reply is added and returned
chat_receive(store, session_id, llm) ==
    IF llm.kind = "invoke_fail"
    THEN [raised |-> TRUE, exc |-> chat_raise(<<llm.exc>>), store |-> store,
          content |-> <<>>]
    ELSE [raised |-> FALSE, exc |-> <<>>,
          store |-> add_message(store, session_id, AIMessage(llm.content)),
          content |-> llm.content]

\* a wrapper that answers as if chat had returned
process_message_swallow(raised, exc, content) == format_response(content)

\* ChatAgent.process_message(message, session_id), given what chat did: the
\* envelope of the reply, or of the exception chat raised
process_message(raised, exc, content) ==
    IF raised
    THEN format_error(<<"Message processing error: ">> \o exc)
    ELSE format_response(content)

(***************************************************************************)
(* State.                                                                  *)
(***************************************************************************)
VARIABLES
    pc,          \* "idle" | "loop" (inside a fan-out's for loop) | "done"
    op,          \* the operation of the request in flight
    args,        \* its arguments
    idx,         \* fan-out: index of the next target of the for loop
    results,     \* fan-out: the local `results`
    errors,      \* fan-out: the local `errors`
    attempts,    \* history: the targets attempted so far, with their outcomes
    resp,        \* the envelope returned to the caller (NoResp until then)
    raisedExc,   \* the message of the exception that escaped to the caller,
                 \* in pieces (<<>> if none)
    calls,       \* history: the calls the request made, in order
    stages,      \* history: the result of each stage of a chain that ran
    capability,  \* environment: what the external capability does for the
                 \* request (per target for a fan-out) if it is reached
    message_history_store,  \* ChatAgent._message_history_store: session id -> history
    llm_instance,           \* ChatAgent._instance is set (the cached LLM client)
    chats                   \* the chat calls of the concurrent callers

\* the class-level state of ChatAgent, and its callers
chatVars == <<message_history_store, llm_instance, chats>>

vars == <<pc, op, args, idx, results, errors, attempts, resp, raisedExc, calls, stages,
          capability, chatVars>>

\* the list the current fan-out iterates over
Targets ==
    IF op = "monitor_sentiment" THEN args.platforms
    ELSE IF op = "collect_inspiration" THEN args.sources
    ELSE IF op = "monitor_price" THEN args.product_urls
    ELSE <<>>

(***************************************************************************)
(* Inputs.                                                                 *)
(***************************************************************************)
SeqsUpTo(S, n) == UNION {[1..k -> S] : k \in 0..n}

\* platform names a caller passes: supported ones and one that is not
SocialPlatformInputs == {"Xiaohongshu", "Douyin", "Weibo"}
EcommercePlatformInputs == {"Taobao", "Amazon", "Pinduoduo"}
SourceInputs == {"Xiaohongshu", "Pinterest"}
UrlInputs == {"url1", "url2"}
KeywordInputs == {<<"kw1">>, <<"kw1", "kw2">>}
CapabilityOutcomes == {"ok", "throw"}
TextInputs == {"topic1"}
AnalysisTypeInputs == {"sentiment", "trend", "mood"}
ChainTypeInputs == {"text_to_social", "social_to_ecommerce", "market_research",
                    "", "summarize", "TEXT_TO_SOCIAL"}
ParamInputs == {EmptyDict, [text |-> "topic1"], [keyword |-> "kw1"], [product |-> "prodA"],
                [text |-> "topic1", analysis_type |-> "mood"], [foo |-> "bar"]}
\* replies of the LLM: a text, nothing, and JSON documents bare or fenced
ContentInputs == {<<>>, <<"post1">>, <<"X">>, <<"J_prod">>, <<"J_list">>,
                  <<"F", "json", "WS", "J_prod", "WS", "F">>,
                  <<"F", "WS", "J_empty", "WS", "F">>}
LlmOutcomes ==
    {[kind |-> "ok", content |-> c, exc |-> ""] : c \in ContentInputs}
    \cup {[kind |-> "create_fail", content |-> <<>>, exc |-> "no api key"],
          [kind |-> "invoke_fail", content |-> <<>>, exc |-> "timeout"]}
\* what the capabilities do for a chain: the LLM, and the browser automation
ChainCapabilities == [llm : LlmOutcomes, browser : CapabilityOutcomes]

\* the callers of the concurrent chat requests, their sessions and messages
Callers == {1, 2}
Sessions == {"A", "B"}
ChatMessages == {<<"m1">>, <<"m2">>}
ChatLlmOutcomes ==
    {[kind |-> "ok", content |-> <<"reply1">>, exc |-> ""],
     [kind |-> "create_fail", content |-> <<>>, exc |-> "no api key"],
     [kind |-> "invoke_fail", content |-> <<>>, exc |-> "timeout"]}

\* a caller with no chat call in flight
IdleChat ==
    [pc |-> "idle", via |-> "chat", message |-> <<>>, session_id |-> "",
     llm |-> [kind |-> "ok", content |-> <<>>, exc |-> ""],
     all_messages |-> <<>>, raised |-> FALSE, exc |-> <<>>, content |-> <<>>,
     resp |-> NoResp]

\* the human and AI messages the store holds
RECURSIVE NumMessages(_)
NumMessages(store) ==
    IF DOMAIN store = {} THEN 0
    ELSE LET sid == CHOOSE x \in DOMAIN store : TRUE
         IN (Len(store[sid]) - 1)
            + NumMessages([x \in DOMAIN store \ {sid} |-> store[x]])

Init ==
    /\ pc = "idle"
    /\ op = "none"
    /\ args = EmptyDict
    /\ idx = 0
    /\ results = EmptyDict
    /\ errors = <<>>
    /\ attempts = <<>>
    /\ resp = NoResp
    /\ raisedExc = <<>>
    /\ calls = <<>>
    /\ stages = <<>>
    /\ capability = <<>>
    /\ message_history_store = EmptyDict
    /\ llm_instance = FALSE
    /\ chats = [c \in Callers |-> IdleChat]

\* a request starts: the locals of a fan-out are fresh
Start(name, a, cap) ==
    /\ pc = "idle"
    /\ op' = name
    /\ args' = a
    /\ capability' = cap
    /\ attempts' = <<>>
    /\ calls' = <<>>
    /\ errors' = <<>>
    /\ stages' = <<>>
    /\ raisedExc' = <<>>
    /\ UNCHANGED chatVars

(***************************************************************************)
(* SocialAgent.monitor_sentiment(keywords, platforms)                      *)
(***************************************************************************)
monitor_sentiment_call ==
    \E keywords \in KeywordInputs :
    \E platforms \in SeqsUpTo(SocialPlatformInputs, MaxTargets) :
        \* `if not platforms`: None and the empty list both read <<>> here
        LET ps == IF platforms = <<>>
                  THEN get_supported_social_platforms
                  ELSE platforms
        IN \E cap \in [1..Len(ps) -> CapabilityOutcomes] :
            /\ Start("monitor_sentiment", [keywords |-> keywords, platforms |-> ps], cap)
            /\ results' = EmptyDict
            /\ idx' = 1
            /\ pc' = "loop"
            /\ resp' = NoResp

\* a loop that stops at the first target that fails
monitor_sentiment_attempt_break ==
    /\ pc = "loop" /\ op = "monitor_sentiment" /\ idx <= Len(args.platforms)
    /\ LET platform == args.platforms[idx]
           r == execute_social_task(platform, "sentiment",
                                    [keywords |-> args.keywords], TRUE)
       IN /\ r.raised
          /\ errors' = Append(errors, <<platform, ": ", r.exc>>)
          /\ attempts' = Append(attempts, [index |-> idx, target |-> platform,
                                           outcome |-> "raised", message |-> <<r.exc>>])
    /\ calls' = Append(calls, "execute_social_task")
    /\ idx' = Len(args.platforms) + 1
    /\ UNCHANGED <<pc, op, args, results, resp, raisedExc, stages, capability, chatVars>>

\* one iteration of `for platform in platforms`
monitor_sentiment_attempt ==
    /\ pc = "loop" /\ op = "monitor_sentiment" /\ idx <= Len(args.platforms)
    /\ LET platform == args.platforms[idx]
           r == execute_social_task(platform, "sentiment",
                                    [keywords |-> args.keywords], TRUE)
       IN IF r.raised
          THEN /\ errors' = Append(errors, <<platform, ": ", r.exc>>)
               /\ results' = results
               /\ attempts' = Append(attempts, [index |-> idx, target |-> platform,
                                                outcome |-> "raised", message |-> <<r.exc>>])
          ELSE IF r.val.status = "success"
          THEN /\ results' = SetItem(results, platform, r.val.result)
               /\ errors' = errors
               /\ attempts' = Append(attempts, [index |-> idx, target |-> platform,
                                                outcome |-> "success", message |-> <<>>])
          ELSE /\ errors' = Append(errors, <<platform, ": ">> \o r.val.message)
               /\ results' = results
               /\ attempts' = Append(attempts, [index |-> idx, target |-> platform,
                                                outcome |-> "error", message |-> r.val.message])
    /\ calls' = Append(calls, "execute_social_task")
    /\ idx' = idx + 1
    /\ UNCHANGED <<pc, op, args, resp, raisedExc, stages, capability, chatVars>>

\* a join that keeps the first failure only
JoinErrorsFirstOnly(errs) == IF errs = <<>> THEN <<>> ELSE Head(errs)

\* the pieces of "; ".join(errors)
JoinErrors(errs) ==
    LET RECURSIVE Flat(_)
        Flat(s) == IF s = <<>> THEN <<>> ELSE Head(s) \o Flat(Tail(s))
    IN Flat(Join(errs, <<"; ">>))

\* after the loop: `if results: ... else: ...`
monitor_sentiment_return ==
    /\ pc = "loop" /\ op = "monitor_sentiment" /\ idx > Len(args.platforms)
    /\ resp' = IF DOMAIN results # {}
               THEN format_success_response(<<"Sentiment monitoring done">>,
                        [keywords |-> args.keywords, platforms |-> args.platforms,
                         results |-> results,
                         errors |-> IF errors # <<>> THEN errors ELSE None])
               ELSE format_error_response(
                        <<"All platforms sentiment monitoring failed: ">> \o JoinErrors(errors),
                        [keywords |-> args.keywords, platforms |-> args.platforms])
    /\ pc' = "done"
    /\ UNCHANGED <<op, args, idx, results, errors, attempts, raisedExc, calls, stages, capability, chatVars>>

(***************************************************************************)
(* SocialAgent.collect_inspiration(keywords, sources, count_per_source,    *)
(* use_vision)                                                             *)
(***************************************************************************)
collect_inspiration_call ==
    \E keywords \in KeywordInputs :
    \E sources \in SeqsUpTo(SourceInputs, MaxTargets) :
    \E cap \in [1..Len(sources) -> CapabilityOutcomes] :
        /\ Start("collect_inspiration",
                 [keywords |-> keywords, sources |-> sources,
                  count_per_source |-> 3, use_vision |-> TRUE], cap)
        /\ results' = EmptyDict
        /\ idx' = 1
        /\ pc' = "loop"
        /\ resp' = NoResp

\* one iteration of `for source in sources`
collect_inspiration_attempt ==
    /\ pc = "loop" /\ op = "collect_inspiration" /\ idx <= Len(args.sources)
    /\ LET source == args.sources[idx]
           r == execute_social_task(source, "inspiration",
                                    [keywords |-> args.keywords,
                                     count_per_source |-> args.count_per_source],
                                    args.use_vision)
       IN IF r.raised
          THEN /\ errors' = Append(errors, <<source, ": ", r.exc>>)
               /\ results' = results
               /\ attempts' = Append(attempts, [index |-> idx, target |-> source,
                                                outcome |-> "raised", message |-> <<r.exc>>])
          ELSE IF r.val.status = "success"
          THEN /\ results' = SetItem(results, source, r.val.result)
               /\ errors' = errors
               /\ attempts' = Append(attempts, [index |-> idx, target |-> source,
                                                outcome |-> "success", message |-> <<>>])
          ELSE /\ errors' = Append(errors, <<source, ": ">> \o r.val.message)
               /\ results' = results
               /\ attempts' = Append(attempts, [index |-> idx, target |-> source,
                                                outcome |-> "error", message |-> r.val.message])
    /\ calls' = Append(calls, "execute_social_task")
    /\ idx' = idx + 1
    /\ UNCHANGED <<pc, op, args, resp, raisedExc, stages, capability, chatVars>>

\* after the loop: `if results: ... else: ...`
collect_inspiration_return ==
    /\ pc = "loop" /\ op = "collect_inspiration" /\ idx > Len(args.sources)
    /\ resp' = IF DOMAIN results # {}
               THEN format_success_response(<<"Inspiration collection done">>,
                        [keywords |-> args.keywords, sources |-> args.sources,
                         count_per_source |-> args.count_per_source,
                         results |-> results,
                         errors |-> IF errors # <<>> THEN errors ELSE None])
               ELSE format_error_response(
                        <<"All sources inspiration collection failed: ">> \o JoinErrors(errors),
                        [keywords |-> args.keywords, sources |-> args.sources])
    /\ pc' = "done"
    /\ UNCHANGED <<op, args, idx, results, errors, attempts, raisedExc, calls, stages, capability, chatVars>>

(***************************************************************************)
(* EcommerceAgent.monitor_price(platform, product_urls, use_vision)        *)
(***************************************************************************)
monitor_price_call ==
    \E platform \in EcommercePlatformInputs :
    \E product_urls \in SeqsUpTo(UrlInputs, MaxTargets) :
    \E cap \in [1..Len(product_urls) -> CapabilityOutcomes] :
        LET error == validate_platform(platform, get_supported_ecommerce_platforms)
        IN /\ Start("monitor_price",
                    [platform |-> platform, product_urls |-> product_urls,
                     use_vision |-> TRUE], cap)
           /\ results' = <<>>
           /\ idx' = 1
           /\ IF error # NoResp
              THEN \* `if error: return error`
                   /\ resp' = error
                   /\ pc' = "done"
              ELSE /\ resp' = NoResp
                   /\ pc' = "loop"

\* one iteration of `for url in product_urls`
monitor_price_attempt ==
    /\ pc = "loop" /\ op = "monitor_price" /\ idx <= Len(args.product_urls)
    /\ LET url == args.product_urls[idx]
           r == execute_ecommerce_task(args.platform, "monitor_price",
                                       [product_urls |-> <<url>>], args.use_vision)
       IN IF r.raised
          THEN /\ errors' = Append(errors, <<url, ": ", r.exc>>)
               /\ results' = results
               /\ attempts' = Append(attempts, [index |-> idx, target |-> url,
                                                outcome |-> "raised", message |-> <<r.exc>>])
          ELSE IF r.val.status = "success"
          THEN /\ results' = Append(results, [url |-> url, details |-> r.val.result])
               /\ errors' = errors
               /\ attempts' = Append(attempts, [index |-> idx, target |-> url,
                                                outcome |-> "success", message |-> <<>>])
          ELSE /\ errors' = Append(errors, <<url, ": ">> \o r.val.message)
               /\ results' = results
               /\ attempts' = Append(attempts, [index |-> idx, target |-> url,
                                                outcome |-> "error", message |-> r.val.message])
    /\ calls' = Append(calls, "execute_ecommerce_task")
    /\ idx' = idx + 1
    /\ UNCHANGED <<pc, op, args, resp, raisedExc, stages, capability, chatVars>>

\* after the loop: `if results: ... else: ...`
monitor_price_return ==
    /\ pc = "loop" /\ op = "monitor_price" /\ idx > Len(args.product_urls)
    /\ resp' = IF results # <<>>
               THEN format_success_response(<<"Price monitoring done">>,
                        [platform |-> args.platform, results |-> results,
                         errors |-> IF errors # <<>> THEN errors ELSE None])
               ELSE format_error_response(
                        <<"All products price monitoring failed: ">> \o JoinErrors(errors),
                        [platform |-> args.platform, product_urls |-> args.product_urls])
    /\ pc' = "done"
    /\ UNCHANGED <<op, args, idx, results, errors, attempts, raisedExc, calls, stages, capability, chatVars>>

(***************************************************************************)
(* The chains, as the routes of api/routes/chain.py call them.             *)
(***************************************************************************)
\* the request ran chain function `name` and got r
Finish(r) ==
    /\ resp' = r.val
    /\ calls' = r.calls
    /\ stages' = r.stages
    /\ pc' = "done"
    /\ UNCHANGED <<idx, results>>

StartChain(name, a, cap) ==
    /\ pc = "idle"
    /\ op' = name
    /\ args' = a
    /\ capability' = cap
    /\ attempts' = <<>>
    /\ errors' = <<>>
    /\ raisedExc' = <<>>
    /\ UNCHANGED chatVars

text_to_social_call ==
    \E text \in TextInputs, analysis_type \in AnalysisTypeInputs, cap \in ChainCapabilities :
        /\ StartChain("text_to_social_analysis",
                      [text |-> text, analysis_type |-> analysis_type], cap)
        /\ Finish(text_to_social_analysis(text, "social media post", "Xiaohongshu",
                                          analysis_type, cap.llm))

social_to_ecommerce_call ==
    \E keyword \in {"kw1"}, platform \in SocialPlatformInputs,
       ecommerce_platform \in EcommercePlatformInputs, cap \in ChainCapabilities :
        /\ StartChain("social_to_ecommerce",
                      [keyword |-> keyword, platform |-> platform,
                       ecommerce_platform |-> ecommerce_platform], cap)
        /\ Finish(social_to_ecommerce(keyword, platform, 5, ecommerce_platform, cap.llm))

advanced_market_research_call ==
    \E product \in {"prodA"}, social_platform \in SocialPlatformInputs,
       ecommerce_platform \in EcommercePlatformInputs, cap \in ChainCapabilities :
        /\ StartChain("advanced_market_research",
                      [product |-> product, social_platform |-> social_platform,
                       ecommerce_platform |-> ecommerce_platform], cap)
        /\ Finish(advanced_market_research(product, "young women", social_platform,
                                           ecommerce_platform, cap.llm))

\* the route /chain/custom: create_agent_chain({"type": type}), then chain_func(**params)
custom_chain_route ==
    \E type \in ChainTypeInputs, params \in ParamInputs, cap \in ChainCapabilities :
        LET chain_func == create_agent_chain([type |-> type])
            r == call_chain(chain_func, params, cap.llm)
        IN /\ StartChain(chain_func.func, [chain_type |-> type, params |-> params], cap)
           /\ IF r.raised
              THEN /\ raisedExc' = <<r.exc>>
                   /\ resp' = NoResp
                   /\ calls' = <<>>
                   /\ stages' = <<>>
                   /\ pc' = "done"
                   /\ UNCHANGED <<idx, results>>
              ELSE Finish(r.val)

(***************************************************************************)
(* The operations of the agents, one call each.                            *)
(***************************************************************************)
\* what the capabilities do for an agent operation
AgentCapabilities == [llm : ChatLlmOutcomes, browser : CapabilityOutcomes]
TaskInputs == {<<"open example.com">>}
ModelNameInputs == {None, "model-x"}
TemplateNameInputs == {"zh_web_summary", "zh_trend_monitor", "zh_unknown"}
TemplateParamInputs ==
    {EmptyDict, [url |-> "u1"], [topic |-> "t1"], [topic |-> "t1", time_period |-> "week"],
     [url |-> "u1", topic |-> "t1"]}
TaskTypeInputs == {"zh_search", "search", "zh_page_analysis"}
FilterInputs == {EmptyDict, [brand |-> "b1"]}
SortInputs == {"relevance", "default"}
SupportedInputs ==
    {<<>>, <<"Taobao">>, get_supported_ecommerce_platforms, get_supported_social_platforms}
MessageInputs == {<<"done">>, <<"failed: ", "timeout">>}
KwargInputs ==
    {EmptyDict, [result |-> "r1"], [status |-> "error"], [status |-> "success"],
     [status |-> "pending", platform |-> "Taobao"]}

StartCall(name, a, cap) ==
    /\ pc = "idle"
    /\ op' = name
    /\ args' = a
    /\ capability' = cap
    /\ attempts' = <<>>
    /\ errors' = <<>>
    /\ stages' = <<>>
    /\ UNCHANGED <<idx, results>>

\* the call returned r.val, or raised r.exc
Returned(r) ==
    /\ pc' = "done"
    /\ calls' = r.calls
    /\ IF r.raised
       THEN raisedExc' = r.exc /\ resp' = NoResp
       ELSE raisedExc' = <<>> /\ resp' = r.val

\* the calls of the agent operations a caller makes: operation and arguments
AgentCalls ==
    {[op |-> "execute_task",
      args |-> [task |-> task, use_vision |-> use_vision, model_name |-> model_name]] :
         task \in TaskInputs, use_vision \in BOOLEAN, model_name \in ModelNameInputs}
    \cup {[op |-> "execute_template_task",
           args |-> [template_name |-> template_name, parameters |-> parameters]] :
              template_name \in TemplateNameInputs, parameters \in TemplateParamInputs}
    \cup {[op |-> "search_products",
           args |-> [platform |-> platform, query |-> "q1", sort_by |-> sort_by,
                     filters |-> filters]] :
              platform \in EcommercePlatformInputs, sort_by \in SortInputs,
              filters \in FilterInputs}
    \cup {[op |-> "collect_from_platform",
           args |-> [platform |-> platform, task_type |-> task_type]] :
              platform \in SocialPlatformInputs, task_type \in TaskTypeInputs}
    \cup {[op |-> "analyze_data", args |-> [analysis_type |-> analysis_type]] :
              analysis_type \in AnalysisTypeInputs}
    \cup {[op |-> "find_trending_content", args |-> [platform |-> platform, niche |-> "n1"]] :
              platform \in SocialPlatformInputs}

AgentOps == {c.op : c \in AgentCalls}

\* the call name(**a), the capabilities doing what cap says
Invoke(name, a, cap) ==
    CASE name = "execute_task" ->
             execute_task(a.task, a.use_vision, 7, a.model_name, None, cap.llm)
      [] name = "execute_template_task" ->
             execute_template_task(a.template_name, a.parameters, TRUE, 7, None, None,
                                   cap.llm)
      [] name = "search_products" ->
             search_products(a.platform, a.query, 10, a.sort_by, TRUE, a.filters)
      [] name = "collect_from_platform" ->
             collect_from_platform(a.platform, a.task_type, TRUE, [keyword |-> "kw1"])
      [] name = "analyze_data" ->
             analyze_data(<<"post1">>, a.analysis_type)
      [] name = "find_trending_content" ->
             find_trending_content(a.platform, a.niche, 5, "week", TRUE)

AgentCall(name) ==
    \E c \in AgentCalls, cap \in AgentCapabilities :
        /\ c.op = name
        /\ StartCall(name, c.args, cap)
        /\ Returned(Invoke(name, c.args, cap))
        /\ UNCHANGED chatVars

execute_task_call == AgentCall("execute_task")

execute_template_task_call == AgentCall("execute_template_task")

search_products_call == AgentCall("search_products")

collect_from_platform_call == AgentCall("collect_from_platform")

analyze_data_call == AgentCall("analyze_data")

find_trending_content_call == AgentCall("find_trending_content")

\* the pure functions of the contract, applied to the inputs of a caller
validate_platform_call ==
    \E platform \in SocialPlatformInputs \cup EcommercePlatformInputs,
       supported_platforms \in SupportedInputs :
        /\ StartCall("validate_platform",
                     [platform |-> platform, supported_platforms |-> supported_platforms],
                     <<>>)
        /\ Returned(Ret(validate_platform(platform, supported_platforms), <<>>))
        /\ UNCHANGED chatVars

format_success_response_call ==
    \E cls \in {"BrowserTaskAgent", "BaseChatAgent"}, message \in MessageInputs,
       kwargs \in KwargInputs :
        /\ StartCall("format_success_response",
                     [cls |-> cls, message |-> message, kwargs |-> kwargs], <<>>)
        /\ Returned(Ret(IF cls = "BrowserTaskAgent"
                        THEN format_success_response(message, kwargs)
                        ELSE BaseChatAgent_format_success_response(message, kwargs), <<>>))
        /\ UNCHANGED chatVars

format_error_response_call ==
    \E cls \in {"BrowserTaskAgent", "BaseChatAgent"}, message \in MessageInputs,
       kwargs \in KwargInputs :
        /\ StartCall("format_error_response",
                     [cls |-> cls, message |-> message, kwargs |-> kwargs], <<>>)
        /\ Returned(Ret(IF cls = "BrowserTaskAgent"
                        THEN format_error_response(message, kwargs)
                        ELSE BaseChatAgent_format_error_response(message, kwargs), <<>>))
        /\ UNCHANGED chatVars

(***************************************************************************)
(* ChatAgent, one request at a time: chat and process_message run to their *)
(* end.                                                                    *)
(***************************************************************************)
\* chat(message, session_id) as a whole: what it raised or returned, the
\* store and the client after it, and its calls to the outside
chat(store, instance, message, session_id, llm) ==
    LET s == chat_send(store, instance, message, session_id, llm)
        r == chat_receive(s.store, session_id, llm)
        create == IF instance THEN <<>> ELSE <<"ChatOpenAI">>
    IN IF s.raised
       THEN [raised |-> TRUE, exc |-> s.exc, content |-> <<>>, store |-> s.store,
             instance |-> s.instance, calls |-> create]
       ELSE [raised |-> r.raised, exc |-> r.exc, content |-> r.content, store |-> r.store,
             instance |-> s.instance, calls |-> create \o <<"llm.ainvoke">>]

\* the store has room for the two messages of one more call
ChatBudget(inflight) == NumMessages(message_history_store) + inflight + 2 <= MaxMessages

\* chat returns the text of the reply: resp holds it under `text`
chat_call ==
    \E llm \in ChatLlmOutcomes :
        LET message == <<"m1">>
            c == chat(message_history_store, llm_instance, message, "default", llm)
        IN /\ ChatBudget(0)
           /\ StartCall("chat", [message |-> message, session_id |-> "default"],
                        [llm |-> llm])
           /\ Returned([raised |-> c.raised, exc |-> c.exc, val |-> [text |-> c.content],
                        calls |-> c.calls])
           /\ message_history_store' = c.store
           /\ llm_instance' = c.instance
           /\ UNCHANGED chats

process_message_call ==
    \E llm \in ChatLlmOutcomes :
        LET message == <<"m1">>
            c == chat(message_history_store, llm_instance, message, "default", llm)
        IN /\ ChatBudget(0)
           /\ StartCall("process_message", [message |-> message, session_id |-> "default"],
                        [llm |-> llm])
           /\ Returned(Ret(process_message(c.raised, c.exc, c.content), c.calls))
           /\ message_history_store' = c.store
           /\ llm_instance' = c.instance
           /\ UNCHANGED chats

(***************************************************************************)
(* ChatAgent, concurrent callers: a chat call is suspended at              *)
(* `await llm.ainvoke(all_messages)` and other calls run meanwhile.        *)
(***************************************************************************)
requestVars == <<pc, op, args, idx, results, errors, attempts, resp, raisedExc, calls,
                 stages, capability>>

Awaiting == {c \in Callers : chats[c].pc = "awaiting"}

\* caller c calls chat or process_message; the call runs to its await
chat_begin(c) ==
    \E via \in {"chat", "process_message"}, message \in ChatMessages,
       session_id \in Sessions, llm \in ChatLlmOutcomes :
        LET s == chat_send(message_history_store, llm_instance, message, session_id, llm)
            call == [IdleChat EXCEPT !.via = via, !.message = message,
                                     !.session_id = session_id, !.llm = llm]
        IN /\ chats[c].pc = "idle"
           /\ ChatBudget(Cardinality(Awaiting))
           /\ message_history_store' = s.store
           /\ llm_instance' = s.instance
           /\ chats' = [chats EXCEPT ![c] =
                  IF s.raised
                  THEN [call EXCEPT !.pc = "done", !.raised = (via = "chat"),
                                    !.exc = IF via = "chat" THEN s.exc ELSE <<>>,
                                    !.resp = IF via = "chat" THEN NoResp
                                             ELSE process_message(TRUE, s.exc, <<>>)]
                  ELSE [call EXCEPT !.pc = "awaiting", !.all_messages = s.all_messages]]
           /\ UNCHANGED requestVars

\* the LLM answers caller c, or fails: the call runs to its end
chat_end(c) ==
    /\ chats[c].pc = "awaiting"
    /\ LET me == chats[c]
           r == chat_receive(message_history_store, me.session_id, me.llm)
       IN /\ message_history_store' = r.store
          /\ chats' = [chats EXCEPT ![c] =
                 [me EXCEPT !.pc = "done",
                            !.raised = (r.raised /\ me.via = "chat"),
                            !.exc = IF me.via = "chat" THEN r.exc ELSE <<>>,
                            !.content = IF me.via = "chat" THEN r.content ELSE <<>>,
                            !.resp = IF me.via = "chat" THEN NoResp
                                     ELSE process_message(r.raised, r.exc, r.content)]]
    /\ UNCHANGED <<llm_instance, requestVars>>

\* caller c has its answer
chat_return(c) ==
    /\ chats[c].pc = "done"
    /\ chats' = [chats EXCEPT ![c] = IdleChat]
    /\ UNCHANGED <<message_history_store, llm_instance, requestVars>>

ChatBegin == \E c \in Callers : chat_begin(c)
ChatEnd == \E c \in Callers : chat_end(c)
ChatReturn == \E c \in Callers : chat_return(c)

NextChat ==
    \/ ChatBegin
    \/ ChatEnd
    \/ ChatReturn

SpecChat == Init /\ [][NextChat]_vars

\* the caller has its answer; the locals of the request are gone and the next
\* request may start
Reset ==
    /\ pc = "done"
    /\ pc' = "idle"
    /\ op' = "none"
    /\ args' = EmptyDict
    /\ idx' = 0
    /\ results' = EmptyDict
    /\ errors' = <<>>
    /\ attempts' = <<>>
    /\ resp' = NoResp
    /\ raisedExc' = <<>>
    /\ calls' = <<>>
    /\ stages' = <<>>
    /\ capability' = <<>>
    /\ UNCHANGED chatVars

Next ==
    \/ monitor_sentiment_call
    \/ monitor_sentiment_attempt
    \/ monitor_sentiment_return
    \/ collect_inspiration_call
    \/ collect_inspiration_attempt
    \/ collect_inspiration_return
    \/ monitor_price_call
    \/ monitor_price_attempt
    \/ monitor_price_return
    \/ text_to_social_call
    \/ social_to_ecommerce_call
    \/ advanced_market_research_call
    \/ custom_chain_route
    \/ execute_task_call
    \/ execute_template_task_call
    \/ search_products_call
    \/ collect_from_platform_call
    \/ analyze_data_call
    \/ find_trending_content_call
    \/ validate_platform_call
    \/ format_success_response_call
    \/ format_error_response_call
    \/ chat_call
    \/ process_message_call
    \/ Reset

Spec == Init /\ [][Next]_vars

(***************************************************************************)
(* The functions of the text and template layer, applied to the inputs of  *)
(* a caller one call at a time.                                            *)
(***************************************************************************)
\* how the model wraps the body of its reply
ReplyWraps == {"bare", "padded", "fence_json", "fence", "fence_json_tail", "fence_JSON"}

\* the bodies of a reply: the JSON documents, text that is not JSON, nothing
ReplyBodies == JsonTokens \cup {"X", "empty"}

BodyText(body) ==
    IF body \in JsonTokens THEN JsonText(body)
    ELSE IF body = "X" THEN <<"X">> ELSE <<>>

\* the reply as the LLM gives it
Reply(wrap, body) ==
    CASE wrap = "bare" -> BodyText(body)
      [] wrap = "padded" -> <<"WS">> \o BodyText(body) \o <<"WS">>
      [] wrap = "fence_json" -> <<"F", "json", "WS">> \o BodyText(body) \o <<"WS", "F">>
      [] wrap = "fence" -> <<"F", "WS">> \o BodyText(body) \o <<"WS", "F">>
      [] wrap = "fence_json_tail" ->
             <<"WS", "F", "json", "WS">> \o BodyText(body) \o <<"WS", "F", "WS", "X">>
      [] wrap = "fence_JSON" -> <<"F", "JSON", "WS">> \o BodyText(body) \o <<"WS", "F">>

ExtractionOutcomes ==
    {[kind |-> "ok", content |-> Reply(wrap, body), exc |-> "", wrap |-> wrap,
      body |-> body] : wrap \in ReplyWraps, body \in ReplyBodies}
    \cup {[kind |-> "create_fail", content |-> <<>>, exc |-> "no api key", wrap |-> "bare",
           body |-> "empty"],
          [kind |-> "invoke_fail", content |-> <<>>, exc |-> "timeout", wrap |-> "bare",
           body |-> "empty"]}

structured_extraction_call ==
    \E llm \in ExtractionOutcomes :
        LET a == [data |-> <<"post1">>, extraction_prompt |-> <<"Extract products">>,
                  schema |-> "ProductExtraction"]
        IN /\ StartCall("structured_extraction", a, [llm |-> llm])
           /\ Returned(structured_extraction(a.data, a.extraction_prompt, a.schema, llm))
           /\ UNCHANGED chatVars

\* the placeholders of a template body
Fields(template) == {template[i].v : i \in {j \in 1..Len(template) : template[j].kind = "field"}}

\* the mappings a caller passes for a template: any subset of its placeholders,
\* with or without a key the template does not use
RenderParamInputs(template) ==
    {[k \in keys \cup extra |-> "v_" \o k] :
        keys \in SUBSET Fields(template), extra \in {{}, {"unused"}}}

\* render_template raises, or returns the text: resp holds it under `text`
render_template_call ==
    \E template_name \in DOMAIN GeneralTemplates :
        \E parameters \in RenderParamInputs(GeneralTemplates[template_name]) :
            LET template == get_general_template(template_name)
                r == render_template(template, parameters)
            IN /\ StartCall("render_template",
                            [template |-> template, parameters |-> parameters], <<>>)
               /\ Returned([r EXCEPT !.val = [text |-> r.val]])
               /\ UNCHANGED chatVars

\* the task_type keys the operations of the capability agents pass on with a
\* platform, for the template of (category, platform, task_type)
TaskTypeKeys ==
    {[op |-> "monitor_sentiment", category |-> SOCIAL, task_type |-> "sentiment"],
     [op |-> "find_trending_content", category |-> SOCIAL, task_type |-> "trending_content"],
     [op |-> "find_similar_creators", category |-> SOCIAL, task_type |-> "similar_creators"],
     [op |-> "generate_content_ideas", category |-> SOCIAL, task_type |-> "content_ideas"],
     [op |-> "analyze_creator", category |-> SOCIAL, task_type |-> "creator_analysis"],
     [op |-> "collect_inspiration", category |-> SOCIAL, task_type |-> "inspiration"],
     [op |-> "social_to_ecommerce", category |-> SOCIAL, task_type |-> "zh_search"],
     [op |-> "search_products", category |-> ECOMMERCE, task_type |-> "search"],
     [op |-> "monitor_price", category |-> ECOMMERCE, task_type |-> "monitor_price"],
     [op |-> "analyze_reviews", category |-> ECOMMERCE, task_type |-> "analyze_reviews"],
     [op |-> "compare_products", category |-> ECOMMERCE, task_type |-> "compare_products"],
     [op |-> "analyze_sales", category |-> ECOMMERCE, task_type |-> "analyze_sales"],
     [op |-> "find_top_sellers", category |-> ECOMMERCE, task_type |-> "find_top_sellers"],
     [op |-> "extract_product_info", category |-> ECOMMERCE,
      task_type |-> "extract_product_info"],
     [op |-> "track_listing", category |-> ECOMMERCE, task_type |-> "track_listing"]}

SupportedPlatforms(category) ==
    IF category = SOCIAL THEN Range(get_supported_social_platforms)
    ELSE Range(get_supported_ecommerce_platforms)

\* the template of the registry for the key an operation passes: resp holds
\* it under `template`, with the task types the platform has
template_lookup_call ==
    \E key \in TaskTypeKeys :
        \E platform \in SupportedPlatforms(key.category) :
            /\ StartCall("template_lookup",
                         [caller |-> key.op, category |-> key.category,
                          platform |-> platform, task_type |-> key.task_type], <<>>)
            /\ Returned(Ret([template |->
                                 IF key.category = SOCIAL
                                 THEN get_social_platform_template(platform, key.task_type)
                                 ELSE get_ecommerce_platform_template(platform,
                                                                      key.task_type),
                             task_types |->
                                 get_platform_task_types(key.category, platform)], <<>>))
            /\ UNCHANGED chatVars

NextFunctions ==
    \/ structured_extraction_call
    \/ render_template_call
    \/ template_lookup_call
    \/ Reset

SpecFunctions == Init /\ [][NextFunctions]_vars

(***************************************************************************)
(* Properties.                                                             *)
(***************************************************************************)
IsInfix(sub, s) ==
    \E i \in 0..(Len(s) - Len(sub)) : SubSeq(s, i + 1, i + Len(sub)) = sub

FanoutOps == {"monitor_sentiment", "collect_inspiration", "monitor_price"}

\* a fan-out whose for loop was entered (monitor_price validates its platform first)
FanoutEntered ==
    /\ op \in FanoutOps
    /\ op = "monitor_price" => args.platform \in Range(get_supported_ecommerce_platforms)

\* the targets for which the external capability throws / succeeds
Throwing == {i \in DOMAIN capability : capability[i] = "throw"}
Succeeding == {i \in DOMAIN capability : capability[i] = "ok"}

\* number of entries of the `results` of an envelope (a dict or a list)
Size(c) == Cardinality(DOMAIN c)

\* C1: in monitor_sentiment, collect_inspiration and monitor_price, when N
\* targets are attempted, the capability succeeds for N-K of them and throws
\* for K of them with 0 < K < N, the envelope has status=success, exactly K
\* errors and exactly N-K results.
C1_PartialSuccess ==
    (/\ pc = "done"
     /\ FanoutEntered
     /\ Len(attempts) = Len(Targets)
     /\ 0 < Cardinality(Throwing)
     /\ Cardinality(Throwing) < Len(Targets))
    => /\ resp.status = "success"
       /\ Len(resp.errors) = Cardinality(Throwing)
       /\ Size(resp.results) = Cardinality(Succeeding)

\* C2: in monitor_sentiment and collect_inspiration, when all N >= 1 attempted
\* targets fail, the envelope has status=error, its message holds every
\* target's "target: failure message", and it has no results.
C2_AllFailError ==
    (/\ pc = "done"
     /\ op \in {"monitor_sentiment", "collect_inspiration"}
     /\ Len(attempts) >= 1
     /\ \A i \in DOMAIN attempts : attempts[i].outcome # "success")
    => /\ resp.status = "error"
       /\ \A i \in DOMAIN attempts :
              IsInfix(<<attempts[i].target, ": ">> \o attempts[i].message, resp.message)
       /\ "results" \notin DOMAIN resp

C2_Witness ==
    /\ pc = "done"
    /\ op = "collect_inspiration"
    /\ Len(attempts) = 2
    /\ \A i \in DOMAIN attempts : attempts[i].outcome # "success"
    /\ resp.status = "error"

\* C3: in a fan-out the targets of the list are attempted once each, in list
\* order, whatever the outcome of the earlier ones, and no envelope is
\* returned before the last target was attempted.
C3_EveryTargetOnce ==
    (FanoutEntered /\ pc \in {"loop", "done"})
    => /\ Len(attempts) <= Len(Targets)
       /\ \A i \in DOMAIN attempts :
              attempts[i].index = i /\ attempts[i].target = Targets[i]
       /\ resp # NoResp => Len(attempts) = Len(Targets)
       /\ pc = "done" => resp # NoResp

C3_Witness ==
    /\ pc = "done"
    /\ op = "monitor_sentiment"
    /\ Len(attempts) = 2
    /\ attempts[1].outcome = "raised"
    /\ attempts[2].index = 2

(***************************************************************************)
(* The chains.                                                             *)
(***************************************************************************)
Count(seq, x) == Cardinality({i \in DOMAIN seq : seq[i] = x})

\* the result of the stage called name, for a chain that ran it
StageRan(name) == \E i \in DOMAIN stages : stages[i].name = name
StageResult(name) == stages[CHOOSE i \in DOMAIN stages : stages[i].name = name].result

KnownChainTypes == {"text_to_social", "social_to_ecommerce", "market_research"}

\* C4: in text_to_social_analysis, when stage 1 (create_content) does not
\* return status=success, analyze_data is not called and the aggregate
\* envelope has status=error.
C4_Stage1FailureAborts ==
    (/\ pc = "done"
     /\ op = "text_to_social_analysis"
     /\ raisedExc = <<>>
     /\ StageResult("create_content").status # "success")
    => /\ Count(calls, "SocialAgent.analyze_data") = 0
       /\ ~StageRan("analyze_data")
       /\ resp.status = "error"

C4_Witness ==
    /\ pc = "done"
    /\ op = "text_to_social_analysis"
    /\ StageRan("create_content")
    /\ StageResult("create_content").status = "error"
    /\ Count(calls, "llm.ainvoke") = 1
    /\ resp.status = "error"

\* the extraction of a social_to_ecommerce request fails or yields nothing when
\* the LLM fails, or replies something other than an object with products
ExtractionYields ==
    /\ capability.llm.kind = "ok"
    /\ capability.llm.content \in {<<"J_prod">>, <<"F", "json", "WS", "J_prod", "WS", "F">>}

\* C5: in social_to_ecommerce, whenever stage 1 succeeds (the social platform
\* is supported and the capability works), exactly one stage-2 product search
\* is issued; its query is the first extracted product when the extraction
\* yields products, and the keyword otherwise.
C5_Stage2AlwaysIssued ==
    (/\ pc = "done"
     /\ op = "social_to_ecommerce"
     /\ raisedExc = <<>>
     /\ args.platform \in Range(get_supported_social_platforms)
     /\ capability.browser = "ok")
    => /\ Count(calls, "EcommerceAgent.search_products") = 1
       /\ resp.product_query = IF ExtractionYields THEN "p1" ELSE args.keyword

\* C6: in social_to_ecommerce, given a stage 1 that succeeds and an extraction
\* that fails, the status of the aggregate envelope is the status the stage-2
\* product search returned.
C6_StatusReflectsStage2 ==
    (/\ pc = "done"
     /\ op = "social_to_ecommerce"
     /\ raisedExc = <<>>
     /\ args.platform \in Range(get_supported_social_platforms)
     /\ capability.browser = "ok"
     /\ capability.llm.kind # "ok")
    => /\ StageRan("search_products")
       /\ resp.status = StageResult("search_products").status

\* C7: in text_to_social_analysis, when stage 1 succeeds and stage 2
\* (analyze_data) fails, the aggregate envelope carries the stage-2 error
\* envelope and the content stage 1 generated, unchanged.
C7_Stage2FailureReported ==
    (/\ pc = "done"
     /\ op = "text_to_social_analysis"
     /\ raisedExc = <<>>
     /\ StageResult("create_content").status = "success"
     /\ StageRan("analyze_data")
     /\ StageResult("analyze_data").status # "success")
    => /\ "analysis_result" \in DOMAIN resp
       /\ resp.analysis_result = StageResult("analyze_data")
       /\ resp.analysis_result.status = "error"
       /\ "generated_content" \in DOMAIN resp
       /\ resp.generated_content = StageResult("create_content").result
       /\ resp.generated_content = capability.llm.content

C7_Witness ==
    /\ pc = "done"
    /\ op = "text_to_social_analysis"
    /\ StageRan("analyze_data")
    /\ StageResult("create_content").status = "success"
    /\ StageResult("analyze_data").status = "error"
    /\ resp.generated_content = <<"post1">>

\* C8: advanced_market_research runs find_trending_content, search_products
\* and the competition analysis once each, then the summarizer once, and its
\* envelope holds the three stage results.
C8_AllStagesThenSummary ==
    (/\ pc = "done"
     /\ op = "advanced_market_research"
     /\ raisedExc = <<>>)
    => /\ Count(calls, "SocialAgent.find_trending_content") = 1
       /\ Count(calls, "EcommerceAgent.search_products") = 1
       /\ Count(calls, "EcommerceAgent.analyze_competition") = 1
       /\ Count(calls, "TextAgent.summarize") = 1
       /\ "detailed_results" \in DOMAIN resp
       /\ DOMAIN resp.detailed_results =
              {"social_trends", "product_info", "competition_analysis"}

\* where the aggregate envelope of a chain keeps the result of a stage
Retained(stage) ==
    IF op = "text_to_social_analysis"
    THEN IF stage.name = "create_content"
         THEN IF stage.result.status = "success"
              THEN "generated_content" \in DOMAIN resp
                   /\ resp.generated_content = stage.result.result
              ELSE IsInfix(stage.result.message, resp.message)
         ELSE "analysis_result" \in DOMAIN resp /\ resp.analysis_result = stage.result
    ELSE IF op = "social_to_ecommerce"
    THEN IF stage.name = "collect_from_platform"
         THEN IF stage.result.status = "success"
              THEN "social_result_summary" \in DOMAIN resp
                   /\ resp.social_result_summary = stage.result.result
              ELSE IsInfix(stage.result.message, resp.message)
         ELSE IF stage.name = "structured_extraction"
         THEN "extraction_result" \in DOMAIN resp
         ELSE "ecommerce_result" \in DOMAIN resp /\ resp.ecommerce_result = stage.result
    ELSE /\ "detailed_results" \in DOMAIN resp
         /\ \E k \in DOMAIN resp.detailed_results : resp.detailed_results[k] = stage.result

\* C9: the aggregate envelope of a chain holds the unmodified result of every
\* stage that ran.
C9_EveryStageRetained ==
    (/\ pc = "done"
     /\ op \in {"text_to_social_analysis", "social_to_ecommerce", "advanced_market_research"}
     /\ raisedExc = <<>>)
    => \A i \in DOMAIN stages : Retained(stages[i])

\* C10: for a chain type that is none of the three known ones, whatever the
\* parameters, the /chain/custom request runs custom_chain, which returns a
\* status=error envelope naming the type; nothing raises and nothing is called.
C10_UnknownChainType ==
    (/\ pc = "done"
     /\ "chain_type" \in DOMAIN args
     /\ args.chain_type \notin KnownChainTypes)
    => /\ op = "custom_chain"
       /\ raisedExc = <<>>
       /\ resp.status = "error"
       /\ args.chain_type \in Range(resp.message)
       /\ calls = <<>>

C10_Witness ==
    /\ pc = "done"
    /\ op = "custom_chain"
    /\ args.chain_type = "summarize"
    /\ args.params = [foo |-> "bar"]
    /\ resp.status = "error"

(***************************************************************************)
(* The agent contract.                                                     *)
(***************************************************************************)
\* C11: execute_task never lets an exception out: when the creation of the
\* LLM client raises, it returns a status=error envelope whose message holds
\* the message of the exception.
C11_DispatchNeverRaises ==
    (pc = "done" /\ op = "execute_task")
    => /\ raisedExc = <<>>
       /\ resp # NoResp
       /\ capability.llm.kind = "create_fail"
              => /\ resp.status = "error"
                 /\ IsInfix(<<capability.llm.exc>>, resp.message)

C11_Witness ==
    /\ pc = "done"
    /\ op = "execute_task"
    /\ capability.llm.kind = "create_fail"
    /\ calls = <<"ChatOpenAI">>
    /\ resp.status = "error"

\* the operations of the core that reach the LLM capability
LlmOps ==
    {"chat", "process_message", "execute_task", "execute_template_task",
     "text_to_social_analysis", "social_to_ecommerce", "advanced_market_research"}

\* the request reached an external capability and the capability raised
CapabilityFailed ==
    /\ op \in LlmOps
    /\ \/ /\ capability.llm.kind = "create_fail"
          /\ Range(calls) \cap {"ChatOpenAI", "get_llm"} # {}
       \/ /\ capability.llm.kind = "invoke_fail"
          /\ "llm.ainvoke" \in Range(calls)

\* C12 as stated: whenever an external capability fails, the operation (chat
\* included) raises nothing and returns a status=error envelope.
C12_FailureIsData ==
    (pc = "done" /\ CapabilityFailed)
    => /\ raisedExc = <<>>
       /\ resp.status = "error"

\* C12, amended: a failure of an external capability escapes as an exception
\* from ChatAgent.chat only, which raises Exception("AI chat error: ...") with
\* the failure's message; every other operation, process_message included,
\* returns it in a status=error envelope, and process_message's message holds
\* the failure's message.  (An exception with no external call made is the
\* TypeError of the /chain/custom route binding the parameters.)
C12_FailureIsDataButChat ==
    /\ (pc = "done" /\ CapabilityFailed)
       => IF op = "chat"
          THEN /\ Head(raisedExc) = "AI chat error: "
               /\ IsInfix(<<capability.llm.exc>>, raisedExc)
               /\ resp = NoResp
          ELSE /\ raisedExc = <<>>
               /\ resp.status = "error"
               /\ op = "process_message"
                      => IsInfix(<<"AI chat error: ", capability.llm.exc>>, resp.message)
    /\ (pc = "done" /\ raisedExc # <<>>)
       => \/ op = "chat" /\ CapabilityFailed
          \/ "chain_type" \in DOMAIN args /\ calls = <<>>

C12_Witness ==
    /\ pc = "done"
    /\ op = "chat"
    /\ capability.llm.kind = "invoke_fail"
    /\ calls = <<"llm.ainvoke">>
    /\ raisedExc = <<"AI chat error: ", "timeout">>

\* the placeholders of a template body
RequiredKeys(template) == {template[i].v : i \in {j \in DOMAIN template : template[j].kind = "field"}}

\* the arguments a of operation name fail its validation
RejectedInput(name, a) ==
    CASE name \in {"search_products", "monitor_price"} ->
             a.platform \notin Range(get_supported_ecommerce_platforms)
      [] name = "collect_from_platform" ->
             \/ a.platform \notin Range(get_supported_social_platforms)
             \/ a.task_type \notin Range(get_platform_task_types(SOCIAL, a.platform))
      [] name = "find_trending_content" ->
             a.platform \notin Range(get_supported_social_platforms)
      [] name = "analyze_data" -> a.analysis_type \notin analysis_types
      [] name = "execute_template_task" ->
             \/ a.template_name \notin DOMAIN GeneralTemplates
             \/ ~(RequiredKeys(GeneralTemplates[a.template_name]) \subseteq DOMAIN a.parameters)
      [] OTHER -> FALSE

\* C13: an agent operation whose input fails validation (platform, task
\* type, analysis type, template name, template parameter) returns a
\* status=error envelope and has made no call at all, external or not.
C13_ValidationBeforeCalls ==
    (pc = "done" /\ RejectedInput(op, args))
    => /\ resp.status = "error"
       /\ raisedExc = <<>>
       /\ calls = <<>>

C13_Witness ==
    /\ pc = "done"
    /\ op = "execute_template_task"
    /\ args.template_name = "zh_trend_monitor"
    /\ args.parameters = [topic |-> "t1"]
    /\ capability.llm.kind = "create_fail"
    /\ resp.status = "error"
    /\ calls = <<>>

\* C14: validate_platform(p, S) returns a status=error envelope that holds
\* every member of S when p is not in S, and nothing when p is in S.
C14_ValidatePlatform ==
    (pc = "done" /\ op = "validate_platform")
    => IF args.platform \in Range(args.supported_platforms)
       THEN resp = NoResp
       ELSE /\ resp.status = "error"
            /\ "supported_platforms" \in DOMAIN resp
            /\ \A m \in Range(args.supported_platforms) :
                   m \in Range(resp.supported_platforms)
            /\ resp.supported_platforms = args.supported_platforms

C14_Witness ==
    /\ pc = "done"
    /\ op = "validate_platform"
    /\ args.platform = "Pinduoduo"
    /\ args.supported_platforms = get_supported_ecommerce_platforms
    /\ resp.status = "error"

\* the message prefixes of the error envelopes the agent operations return
\* for inputs that fail validation (rejected = TRUE) or that pass it
ErrorPrefixes(rejected) ==
    {Head(Invoke(c.op, c.args, cap).val.message) :
        <<c, cap>> \in {x \in AgentCalls \X AgentCapabilities :
                          /\ RejectedInput(x[1].op, x[1].args) = rejected
                          /\ Invoke(x[1].op, x[1].args, x[2]).val.status = "error"}}

\* C15: an agent operation whose input fails validation ends with an error
\* envelope without dispatching; one whose input passes it dispatches and
\* ends in success or in an error envelope; and the prefix of a rejection's
\* message is the prefix of no execution failure's message, and conversely.
C15_RejectedFailedPrefixes ==
    (pc = "done" /\ op \in AgentOps)
    => /\ resp.status \in {"success", "error"}
       /\ RejectedInput(op, args) => (resp.status = "error" /\ calls = <<>>)
       /\ ~RejectedInput(op, args) => calls # <<>>
       /\ resp.status = "error"
              => /\ Head(resp.message) \in ErrorPrefixes(RejectedInput(op, args))
                 /\ Head(resp.message) \notin ErrorPrefixes(~RejectedInput(op, args))

C15_Witness ==
    /\ pc = "done"
    /\ op = "collect_from_platform"
    /\ args.platform = "Douyin"
    /\ args.task_type = "zh_page_analysis"
    /\ Head(resp.message) = "Platform "
    /\ "Collecting from " \in ErrorPrefixes(FALSE)

\* C16: whatever the message and the extra fields, format_success_response
\* returns status=success and format_error_response returns status=error.
C16_StatusFixed ==
    /\ (pc = "done" /\ op = "format_success_response") => resp.status = "success"
    /\ (pc = "done" /\ op = "format_error_response") => resp.status = "error"

\* the fields under which an envelope carries the output of a capability, a
\* target or a stage
PayloadFields ==
    {"result", "results", "detailed_results", "analysis_result", "generated_content",
     "trending_content", "ecommerce_result", "social_result_summary", "summary"}

\* the operations that return an envelope of their own making
EnvelopeOps ==
    AgentOps \cup FanoutOps
    \cup {"text_to_social_analysis", "social_to_ecommerce", "advanced_market_research",
          "custom_chain"}

\* C17: a status=error envelope of an agent operation, a fan-out or a chain
\* has no payload field, also when targets were attempted or stages ran before.
C17_ErrorHasNoPayload ==
    (pc = "done" /\ op \in EnvelopeOps /\ raisedExc = <<>> /\ resp.status = "error")
    => DOMAIN resp \cap PayloadFields = {}

C17_Witness ==
    /\ pc = "done"
    /\ op = "advanced_market_research"
    /\ Len(stages) = 2
    /\ resp.status = "error"
    /\ DOMAIN resp = {"status", "message"}

\* C18: search_products on a platform of the e-commerce set, the capability
\* working, returns status=success with the output under result and echoes
\* platform, query, sort_by and filters.
C18_SearchProductsSuccess ==
    (/\ pc = "done"
     /\ op = "search_products"
     /\ args.platform \in Range(get_supported_ecommerce_platforms)
     /\ capability.llm.kind = "ok"
     /\ capability.browser = "ok")
    => /\ resp.status = "success"
       /\ {"result", "platform", "query", "sort_by", "filters"} \subseteq DOMAIN resp
       /\ resp.platform = args.platform
       /\ resp.query = args.query
       /\ resp.sort_by = args.sort_by

\* C19: a rejection says how to correct the input: an unsupported platform
\* comes with the supported platforms, an unknown template with the template
\* names, a missing template parameter with the missing key in the message
\* and the keys the template requires.
C19_RejectionContext ==
    /\ (pc = "done" /\ op \in {"search_products", "monitor_price"} /\ RejectedInput(op, args))
       => resp.supported_platforms = get_supported_ecommerce_platforms
    /\ (/\ pc = "done"
        /\ op \in {"collect_from_platform", "find_trending_content"}
        /\ args.platform \notin Range(get_supported_social_platforms))
       => resp.supported_platforms = get_supported_social_platforms
    /\ (/\ pc = "done"
        /\ op = "execute_template_task"
        /\ args.template_name \notin DOMAIN GeneralTemplates)
       => resp.supported_templates = get_general_template_names
    /\ (/\ pc = "done"
        /\ op = "execute_template_task"
        /\ args.template_name \in DOMAIN GeneralTemplates
        /\ RejectedInput(op, args))
       => LET required == RequiredKeys(GeneralTemplates[args.template_name])
          IN /\ \E k \in required \ DOMAIN args.parameters :
                    IsInfix(<<Repr(k)>>, resp.message)
             /\ "required_parameters" \in DOMAIN resp
             /\ Range(resp.required_parameters) = required

(***************************************************************************)
(* The conversation sessions.                                              *)
(***************************************************************************)
IsPrefix(s, t) == Len(s) <= Len(t) /\ SubSeq(t, 1, Len(s)) = s

\* C20: the history of a session starts with the system prompt, and no step
\* of any chat call, succeeding or failing, removes a session or removes,
\* replaces or reorders a message: each history is a prefix of what it is
\* after the step.
C20_HistoryAppendOnly ==
    /\ [](\A sid \in DOMAIN message_history_store :
              /\ message_history_store[sid] # <<>>
              /\ message_history_store[sid][1] = SystemMessage(SYSTEM_PROMPT))
    /\ [][\A sid \in DOMAIN message_history_store :
              /\ sid \in DOMAIN message_history_store'
              /\ IsPrefix(message_history_store[sid], message_history_store'[sid])]_vars

C20_Witness ==
    /\ "A" \in DOMAIN message_history_store
    /\ Len(message_history_store["A"]) = 5
    /\ message_history_store["A"][2].type = "human"
    /\ message_history_store["A"][3].type = "human"
    /\ message_history_store["A"][5].type = "ai"
    /\ \A c \in Callers : chats[c].pc = "done"

\* the history of session sid as a call finds it: a new session is seeded
HistoryOf(store, sid) ==
    IF sid \in DOMAIN store THEN store[sid] ELSE <<SystemMessage(SYSTEM_PROMPT)>>

\* caller c's call reaches its await in this step
Sends(c) == chats[c].pc = "idle" /\ chats'[c].pc = "awaiting"
\* caller c's LLM invocation succeeds in this step
Receives(c) ==
    chats[c].pc = "awaiting" /\ chats'[c].pc = "done" /\ chats[c].llm.kind = "ok"

\* C21: a chat call whose LLM invocation succeeds appends exactly two
\* messages to its session's history, first the human message (before the
\* invocation) and then the AI reply (after it); the LLM is given the whole
\* history from the system message to the new human message; and the call
\* returns the content of the AI reply it appended.
C21_SuccessfulTurn ==
    [][\A c \in Callers :
          /\ Sends(c) =>
                LET sid == chats'[c].session_id
                    before == HistoryOf(message_history_store, sid)
                IN /\ message_history_store'[sid]
                          = Append(before, HumanMessage(chats'[c].message))
                   /\ chats'[c].all_messages = message_history_store'[sid]
                   /\ chats'[c].all_messages[1] = SystemMessage(SYSTEM_PROMPT)
          /\ Receives(c) =>
                LET sid == chats[c].session_id
                    reply == IF chats[c].via = "chat" THEN chats'[c].content
                             ELSE chats'[c].resp.response
                IN /\ ~chats'[c].raised
                   /\ message_history_store'[sid]
                          = Append(message_history_store[sid], AIMessage(reply))
                   /\ reply = chats[c].llm.content]_vars

\* a second turn of session A has succeeded: the LLM was given four messages
C21_Witness ==
    \E c \in Callers :
        /\ chats[c].pc = "done" /\ chats[c].via = "chat" /\ ~chats[c].raised
        /\ chats[c].llm.kind = "ok" /\ chats[c].session_id = "A"
        /\ Len(chats[c].all_messages) = 4
        /\ chats[c].content = <<"reply1">>
        /\ message_history_store["A"]
               = Append(chats[c].all_messages, AIMessage(<<"reply1">>))

\* the messages of a history that are of type t
TypeCount(history, t) == Cardinality({i \in DOMAIN history : history[i].type = t})

\* C22: nothing serializes the turns of one session.  Whenever two calls on
\* the same session are both suspended at their LLM invocation, the history
\* replayed to the later one extends the history replayed to the earlier
\* one: it holds the earlier call's human message, whose AI reply does not
\* exist yet, so the replay has at least two more human messages than AI
\* replies.  When the later call started right after the earlier one and
\* both invocations succeed, the session's history ends with the two human
\* messages followed by the two AI replies, which is not a human/ai
\* alternation.
C22_SameSessionRace ==
    \A c, d \in Callers :
        (c # d /\ chats[c].session_id = chats[d].session_id) =>
            LET sid == chats[c].session_id
                first == chats[c].all_messages
                later == chats[d].all_messages
            IN /\ (chats[c].pc = "awaiting" /\ chats[d].pc = "awaiting"
                      /\ Len(first) <= Len(later)) =>
                      /\ IsPrefix(first, later) /\ Len(first) < Len(later)
                      /\ later[Len(first)] = HumanMessage(chats[c].message)
                      /\ later[Len(later)] = HumanMessage(chats[d].message)
                      /\ TypeCount(later, "human") >= TypeCount(later, "ai") + 2
                      /\ message_history_store[sid] = later
               /\ (chats[c].pc = "done" /\ chats[d].pc = "done"
                      /\ chats[c].llm.kind = "ok" /\ chats[d].llm.kind = "ok"
                      /\ Len(later) = Len(first) + 1) =>
                      /\ later = Append(first, HumanMessage(chats[d].message))
                      /\ Len(message_history_store[sid]) = Len(later) + 2
                      /\ SubSeq(message_history_store[sid], 1, Len(later)) = later
                      /\ \A i \in 1..2 :
                             message_history_store[sid][Len(later) + i].type = "ai"

\* two overlapping calls on session A have both succeeded: the second was
\* replayed the first one's human message without its reply, and the history
\* is system, human, human, ai, ai
C22_Witness ==
    /\ chats[1].pc = "done" /\ chats[2].pc = "done"
    /\ chats[1].session_id = "A" /\ chats[2].session_id = "A"
    /\ chats[1].llm.kind = "ok" /\ chats[2].llm.kind = "ok"
    /\ chats[1].all_messages = <<SystemMessage(SYSTEM_PROMPT), HumanMessage(<<"m1">>)>>
    /\ chats[2].all_messages = <<SystemMessage(SYSTEM_PROMPT), HumanMessage(<<"m1">>),
                                  HumanMessage(<<"m2">>)>>
    /\ message_history_store["A"]
           = <<SystemMessage(SYSTEM_PROMPT), HumanMessage(<<"m1">>), HumanMessage(<<"m2">>),
               AIMessage(<<"reply1">>), AIMessage(<<"reply1">>)>>

(***************************************************************************)
(* Structured extraction and templates.                                    *)
(***************************************************************************)
\* a call of structured_extraction has returned, the LLM having replied
Extracted ==
    pc = "done" /\ op = "structured_extraction" /\ capability.llm.kind = "ok"

\* C23: a reply that is a JSON document in a fenced block, labelled json or
\* unlabelled, gives the same envelope as the reply that is the document
\* itself.
C23_FencedEqualsUnwrapped ==
    (Extracted /\ capability.llm.wrap \in {"fence_json", "fence"}
       /\ capability.llm.body \in JsonTokens) =>
        resp = structured_extraction(args.data, args.extraction_prompt, args.schema,
                   [capability.llm EXCEPT !.content = JsonText(capability.llm.body)]).val

\* C24: when the reply, once sanitized, does not parse, the envelope is
\* status=error and carries the reply as the LLM gave it, before stripping,
\* and the LLM was invoked exactly once.
C24_ParseErrorKeepsOriginal ==
    (Extracted /\ resp.status = "error") =>
        /\ "original_response" \in DOMAIN resp
        /\ resp.original_response = capability.llm.content
        /\ Count(calls, "llm.ainvoke") = 1

\* C25: render_template raises an error that names a missing key whenever a
\* placeholder of the template has no entry in the mapping, and then returns
\* no text; when every placeholder has an entry it returns the body with
\* each placeholder replaced by its value, whatever other keys the mapping
\* has.
C25_RenderTemplate ==
    (pc = "done" /\ op = "render_template") =>
        LET template == args.template
            parameters == args.parameters
            missing == Fields(template) \ DOMAIN parameters
        IN IF missing # {}
           THEN /\ resp = NoResp
                /\ \E k \in missing : IsInfix(<<Repr(k)>>, raisedExc)
           ELSE /\ raisedExc = <<>>
                /\ resp.text = [i \in 1..Len(template) |->
                                   IF template[i].kind = "field"
                                   THEN parameters[template[i].v] ELSE template[i].v]

\* the comparison template rendered with item1 and dimensions only: the
\* error names url1, the first placeholder without an entry
C25_Witness ==
    /\ pc = "done" /\ op = "render_template"
    /\ args.template = GeneralTemplates["zh_comparison"]
    /\ DOMAIN args.parameters = {"item1", "dimensions"}
    /\ raisedExc = <<"Template parameter error: missing parameter ", "'url1'">>

(***************************************************************************)
(* The market-research chain: what the summarizer is given.                *)
(***************************************************************************)
\* the output a success envelope of a stage carries
Materialized(r) ==
    IF "result" \in DOMAIN r THEN r.result
    ELSE IF "trending_content" \in DOMAIN r THEN r.trending_content
    ELSE <<>>

\* C26: advanced_market_research gives the summarizer a text that holds, for
\* each of its three stages, the output of the stage when the stage returned
\* status=success and the "no data" placeholder when it failed.
C26_SummarizerInput ==
    (pc = "done" /\ op = "advanced_market_research") =>
        /\ Count(calls, "TextAgent.summarize") = 1
        /\ StageRan("find_trending_content") /\ StageRan("search_products")
        /\ StageRan("analyze_competition")
        /\ LET t == StageResult("find_trending_content")
               p == StageResult("search_products")
               c == StageResult("analyze_competition")
               text == summary_content(t, p, c)
               Holds(r, section) ==
                   IF r.status = "success" THEN text[section] = Materialized(r)
                   ELSE text[section] = <<"no data">>
           IN /\ Holds(t, "social_trends")
              /\ Holds(p, "product_info")
              /\ Holds(c, "competition_analysis")

(***************************************************************************)
(* The platform registry.                                                  *)
(***************************************************************************)
\* C27: the task_type key an operation of a capability agent passes on is,
\* for every supported platform, one of the task types the registry has for
\* the platform: the lookup of the template finds one.
C27_TaskTypeKeysRegistered ==
    (pc = "done" /\ op = "template_lookup") =>
        /\ args.task_type \in Range(resp.task_types)
        /\ resp.template # <<>>

(***************************************************************************)
(* The conversation sessions: failed turns, creation and isolation.        *)
(***************************************************************************)
\* caller c's LLM invocation fails in this step
Fails(c) ==
    chats[c].pc = "awaiting" /\ chats'[c].pc = "done" /\ chats[c].llm.kind = "invoke_fail"

\* C28: a chat call whose LLM invocation fails is not rolled back.  The step
\* in which it fails changes no history: the human message the call appended
\* stays, with no AI reply of the call, so the call has added exactly one
\* message; chat raises (process_message returns the error envelope).  A call
\* that starts on the session after the failed call did is replayed a
\* history that holds the failed call's human message and in which two human
\* messages are adjacent.
C28_FailedTurnStays ==
    /\ [][\A c \in Callers :
              (Sends(c) /\ chats'[c].llm.kind = "invoke_fail") =>
                  LET sid == chats'[c].session_id
                  IN Len(message_history_store'[sid])
                         = Len(HistoryOf(message_history_store, sid)) + 1]_vars
    /\ [][\A c \in Callers :
              Fails(c) =>
                  LET sid == chats[c].session_id
                      mine == chats[c].all_messages
                  IN /\ message_history_store' = message_history_store
                     /\ IsPrefix(mine, message_history_store'[sid])
                     /\ mine[Len(mine)] = HumanMessage(chats[c].message)
                     /\ IF chats[c].via = "chat"
                        THEN /\ chats'[c].raised
                             /\ StartsWith(chats'[c].exc, <<"AI chat error: ">>)
                        ELSE chats'[c].resp.status = "error"]_vars
    /\ [](\A c, d \in Callers :
              (/\ c # d
               /\ chats[c].pc = "done" /\ chats[c].llm.kind = "invoke_fail"
               /\ chats[c].all_messages # <<>>
               /\ chats[d].session_id = chats[c].session_id
               /\ Len(chats[d].all_messages) > Len(chats[c].all_messages)) =>
                  LET n == Len(chats[c].all_messages)
                      replay == chats[d].all_messages
                  IN /\ replay[n] = HumanMessage(chats[c].message)
                     /\ \E i \in 1..(Len(replay) - 1) :
                            replay[i].type = "human" /\ replay[i + 1].type = "human")

\* caller 1's first turn on session A failed at the invocation and chat
\* raised; caller 2's call, started after it, is replayed system, human, human
C28_Witness ==
    /\ chats[1].pc = "done" /\ chats[1].via = "chat" /\ chats[1].session_id = "A"
    /\ chats[1].llm.kind = "invoke_fail" /\ chats[1].raised
    /\ chats[1].exc = <<"AI chat error: ", "timeout">>
    /\ chats[2].pc = "awaiting" /\ chats[2].session_id = "A"
    /\ chats[2].all_messages = <<SystemMessage(SYSTEM_PROMPT), HumanMessage(<<"m1">>),
                                  HumanMessage(<<"m2">>)>>
    /\ message_history_store["A"] = chats[2].all_messages

\* the system messages of a history
SystemCount(history) == Cardinality({i \in DOMAIN history : history[i].type = "system"})

\* C29: under every interleaving of chat calls, concurrent first calls for a
\* new session included, a session is created once: its history holds
\* exactly one system message, the first one, and once a session exists no
\* step makes another history for it (the history keeps what it holds).
C29_OneHistoryOneSystemMessage ==
    /\ [](\A sid \in DOMAIN message_history_store :
              /\ SystemCount(message_history_store[sid]) = 1
              /\ message_history_store[sid][1] = SystemMessage(SYSTEM_PROMPT))
    /\ [][\A sid \in DOMAIN message_history_store :
              /\ sid \in DOMAIN message_history_store'
              /\ Len(message_history_store'[sid]) >= Len(message_history_store[sid])
              /\ SystemCount(message_history_store'[sid]) = 1]_vars

\* two first calls for the new session A are both suspended at the LLM: one
\* history, one system message, the two human messages
C29_Witness ==
    /\ chats[1].pc = "awaiting" /\ chats[2].pc = "awaiting"
    /\ chats[1].session_id = "A" /\ chats[2].session_id = "A"
    /\ DOMAIN message_history_store = {"A"}
    /\ Len(chats[1].all_messages) = 2
    /\ message_history_store["A"] = chats[2].all_messages
    /\ Len(message_history_store["A"]) = 3

\* the store without the sessions other than sid
OnlySession(store, sid) == [x \in DOMAIN store \cap {sid} |-> store[x]]

\* C30: a step of a chat call on a session, whether the call succeeds or
\* fails, leaves the history of every other session as it is and creates no
\* session but its own; and the history replayed to the LLM is what the call
\* would replay if no other session existed.
C30_SessionIsolation ==
    [][\A c \in Callers :
          chats'[c] # chats[c] =>
              LET sid == IF chats[c].pc = "idle" THEN chats'[c].session_id
                         ELSE chats[c].session_id
              IN /\ DOMAIN message_history_store' \subseteq DOMAIN message_history_store \cup {sid}
                 /\ \A x \in DOMAIN message_history_store \ {sid} :
                        /\ x \in DOMAIN message_history_store'
                        /\ message_history_store'[x] = message_history_store[x]
                 /\ Sends(c) =>
                        chats'[c].all_messages
                            = chat_send(OnlySession(message_history_store, sid), llm_instance,
                                        chats'[c].message, sid, chats'[c].llm).all_messages]_vars

\* session B holds a whole turn; a call on A has failed at the invocation
\* and left A with its human message only
C30_Witness ==
    /\ DOMAIN message_history_store = {"A", "B"}
    /\ Len(message_history_store["B"]) = 3
    /\ message_history_store["B"][3].type = "ai"
    /\ \E c \in Callers :
           /\ chats[c].pc = "done" /\ chats[c].session_id = "A"
           /\ chats[c].llm.kind = "invoke_fail"
           /\ message_history_store["A"] = chats[c].all_messages
           /\ Len(chats[c].all_messages) = 2

====
